---- MODULE Spec2Model ----
(***************************************************************************)
(* A model of the UMICP Rust bindings: the envelope (construction through  *)
(* EnvelopeBuilder, validation, JSON serialization, hashing) and the       *)
(* numeric kernel (Matrix).                                                *)
(*                                                                         *)
(* A Rust String is a sequence of one-character strings, Option<T> is a    *)
(* sequence of length 0 (None) or 1 (Some), Vec<T> is a sequence, and a    *)
(* HashMap<K,V> is the sequence of its <<key, value>> entries in the       *)
(* iteration order of that instance (keys pairwise distinct).              *)
(***************************************************************************)
EXTENDS Integers, Sequences, FiniteSets, TLC

\* ------------------------------------------------------------------ bounds

\* Calls of the builder/envelope setters other than from/to explored per run.
MaxSetterCalls == 2

\* The longest buffer handed to a kernel operation.
MaxLen == 4

\* In how many builder calls two compared envelopes may differ.
MaxDiffCalls == 2

\* The longest vector handed to dot_product and cosine_similarity.
MaxVectorLen == 9

\* The longest buffer handed to determinant and inverse.
MaxSquareLen == 9

\* How many threads run side by side.
ThreadCount == 2

\* How many add_envelope and flush_batch calls one thread makes at most.
MaxStreamCalls == 2

\* StreamingProcessor::new: the buffer length that makes add_envelope flush.
batch_size == 100

\* Length of the longest buffer transpose is called with.
MaxTransposeLen == 6

\* Side of the square matrices of the large multiplications: the smallest
\* with more than 10000 multiply-add steps.
LargeSide == 22

\* ------------------------------------------------------- option and result

None == <<>>
Some(v) == <<v>>
IsSome(o) == Len(o) = 1
Unwrap(o) == o[1]

Ok(v) == [ok |-> TRUE, value |-> v]
OkUnit == [ok |-> TRUE]

\* error.rs: UmicpError::Validation { message }; the message is kept as the
\* format string and its argument.
UmicpError_validation(fmt, arg) == [ok |-> FALSE, kind |-> "Validation", message |-> <<fmt, arg>>]
UmicpError_serialization(fmt, arg) == [ok |-> FALSE, kind |-> "Serialization", message |-> <<fmt, arg>>]
UmicpError_matrix(fmt) == [ok |-> FALSE, kind |-> "Matrix", message |-> fmt]

\* The `?` operator: the first error aborts, otherwise the rest is evaluated.
Try(r, rest) == IF r.ok THEN rest ELSE r

\* ------------------------------------------------------------------ strings

Range(s) == {s[i] : i \in DOMAIN s}

Whitespace == {" ", "\t", "\n", "\r"}

RECURSIVE trim_start(_)
trim_start(s) == IF s # <<>> /\ Head(s) \in Whitespace THEN trim_start(Tail(s)) ELSE s

RECURSIVE trim_end(_)
trim_end(s) ==
    IF s # <<>> /\ s[Len(s)] \in Whitespace THEN trim_end(SubSeq(s, 1, Len(s) - 1)) ELSE s

\* str::trim
trim(s) == trim_end(trim_start(s))

\* wire names of the serialized object
K_v == <<"v">>
K_msg_id == <<"m","s","g","_","i","d">>
K_ts == <<"t","s">>
K_from == <<"f","r","o","m">>
K_to == <<"t","o">>
K_op == <<"o","p">>
K_capabilities == <<"c","a","p","a","b","i","l","i","t","i","e","s">>
K_schema_uri == <<"s","c","h","e","m","a","_","u","r","i">>
K_accept == <<"a","c","c","e","p","t">>
K_payload_hint == <<"p","a","y","l","o","a","d","_","h","i","n","t">>
K_payload_refs == <<"p","a","y","l","o","a","d","_","r","e","f","s">>
K_type == <<"t","y","p","e">>
K_size == <<"s","i","z","e">>
K_encoding == <<"e","n","c","o","d","i","n","g">>
K_count == <<"c","o","u","n","t">>

\* -------------------------------------------------------------------- types

OperationTypes == {"Control", "Data", "Ack", "Error", "Request", "Response"}
PayloadTypes == {"Vector", "Text", "Metadata", "Binary"}
EncodingTypes ==
    {"Float32", "Float64", "Int32", "Int64", "Uint8", "Uint16", "Uint32", "Uint64"}

\* impl Display for OperationType
OperationType_to_string(op) ==
    CASE op = "Control" -> <<"c","o","n","t","r","o","l">>
      [] op = "Data" -> <<"d","a","t","a">>
      [] op = "Ack" -> <<"a","c","k">>
      [] op = "Error" -> <<"e","r","r","o","r">>
      [] op = "Request" -> <<"r","e","q","u","e","s","t">>
      [] op = "Response" -> <<"r","e","s","p","o","n","s","e">>

\* impl Display for PayloadType
PayloadType_to_string(t) ==
    CASE t = "Vector" -> <<"v","e","c","t","o","r">>
      [] t = "Text" -> <<"t","e","x","t">>
      [] t = "Metadata" -> <<"m","e","t","a","d","a","t","a">>
      [] t = "Binary" -> <<"b","i","n","a","r","y">>

\* impl Display for EncodingType
EncodingType_to_string(e) ==
    CASE e = "Float32" -> <<"f","l","o","a","t","3","2">>
      [] e = "Float64" -> <<"f","l","o","a","t","6","4">>
      [] e = "Int32" -> <<"i","n","t","3","2">>
      [] e = "Int64" -> <<"i","n","t","6","4">>
      [] e = "Uint8" -> <<"u","i","n","t","8">>
      [] e = "Uint16" -> <<"u","i","n","t","1","6">>
      [] e = "Uint32" -> <<"u","i","n","t","3","2">>
      [] e = "Uint64" -> <<"u","i","n","t","6","4">>

\* struct PayloadHint
PayloadHint(t, size, encoding, count) ==
    [payload_type |-> t, size |-> size, encoding |-> encoding, count |-> count]

\* ------------------------------------------------------------------ HashMap

Keys(m) == {m[i][1] : i \in DOMAIN m}
Entries(m) == Range(m)

\* HashMap::get
HashMap_get(m, k) ==
    IF k \in Keys(m) THEN Some((CHOOSE e \in Entries(m) : e[1] = k)[2]) ELSE None

\* PartialEq for HashMap: the same keys with the same values, whatever the
\* iteration order of either instance.
HashMap_eq(m1, m2) == Entries(m1) = Entries(m2)

\* Every iteration order a map holding exactly these entries can have.
Orders(entries) ==
    {s \in [1..Cardinality(entries) -> entries] : Range(s) = entries}

\* HashMap::insert: an existing key keeps its slot and takes the new value; a
\* new key lands in a slot the hasher picks (and may trigger a rehash), so
\* the resulting iteration order is unspecified.
HashMap_insert(m, k, v) ==
    IF k \in Keys(m)
    THEN {[i \in DOMAIN m |-> IF m[i][1] = k THEN <<k, v>> ELSE m[i]]}
    ELSE Orders(Entries(m) \cup {<<k, v>>})

\* -------------------------------------------------------------------- utils

HexDigits ==
    {"0","1","2","3","4","5","6","7","8","9",
     "a","b","c","d","e","f","A","B","C","D","E","F"}

\* The 8-4-4-4-12 form: 36 characters, hyphens at 9, 14, 19, 24.
HyphenPositions == {9, 14, 19, 24}
IsHyphenated(s) ==
    /\ Len(s) = 36
    /\ \A i \in 1..36 :
         IF i \in HyphenPositions THEN s[i] = "-" ELSE s[i] \in HexDigits

UrnPrefix == <<"u","r","n",":","u","u","i","d",":">>

\* Uuid::parse_str: the simple, hyphenated, braced and URN forms.
Uuid_parse_str_is_ok(s) ==
    \/ Len(s) = 32 /\ \A i \in 1..32 : s[i] \in HexDigits
    \/ IsHyphenated(s)
    \/ Len(s) = 38 /\ s[1] = "{" /\ s[38] = "}" /\ IsHyphenated(SubSeq(s, 2, 37))
    \/ Len(s) = 45 /\ SubSeq(s, 1, 9) = UrnPrefix /\ IsHyphenated(SubSeq(s, 10, 45))

\* utils.rs validate_uuid
validate_uuid(uuid_str) == Uuid_parse_str_is_ok(uuid_str)

\* Uuid::new_v4 on 32 random nibbles: the version nibble becomes 4 and the
\* variant nibble one of 8, 9, a, b.
VariantNibble(h) ==
    CASE h \in {"0","4","8","c"} -> "8"
      [] h \in {"1","5","9","d"} -> "9"
      [] h \in {"2","6","a","e"} -> "a"
      [] OTHER -> "b"
Uuid_new_v4(random) ==
    [i \in 1..32 |-> IF i = 13 THEN "4"
                     ELSE IF i = 17 THEN VariantNibble(random[i])
                     ELSE random[i]]

\* Uuid::to_string: lower-case hyphenated.
Uuid_to_string(nibbles) ==
    SubSeq(nibbles, 1, 8) \o <<"-">> \o SubSeq(nibbles, 9, 12) \o <<"-">>
      \o SubSeq(nibbles, 13, 16) \o <<"-">> \o SubSeq(nibbles, 17, 20) \o <<"-">>
      \o SubSeq(nibbles, 21, 32)

\* utils.rs generate_uuid, given the random source's output
generate_uuid(random) == Uuid_to_string(Uuid_new_v4(random))

\* The random source: the 32 nibbles one call may draw.
RandomA == <<"6","7","e","5","5","0","4","4","1","0","b","1","1","2","6","f","9","2","4","7","b","b","6","8","0","e","5","f","e","0","c","8">>
RandomB == <<"0","f","3","c","9","a","7","e","5","d","2","1","4","b","6","e","c","8","a","1","f","2","d","3","b","4","c","5","d","6","e","7">>
RandomSource == {RandomA, RandomB}

\* utils.rs get_current_timestamp: Utc::now().to_rfc3339(); Clock holds the
\* instants a builder may be created at, TimeB a later one.
TimeA == <<"2","0","2","5","-","0","1","-","0","1","T","0","0",":","0","0",":","0","0","+","0","0",":","0","0">>
TimeB == <<"2","0","2","5","-","0","1","-","0","1","T","0","0",":","0","0",":","0","1","+","0","0",":","0","0">>
Clock == {TimeA}
get_current_timestamp(now) == now

\* validate_non_empty without the trim: only the empty string is rejected.
validate_non_empty_untrimmed(value, field_name) ==
    IF value = <<>>
    THEN UmicpError_validation("Field '{}' cannot be empty", field_name)
    ELSE OkUnit

\* validate_non_empty taking only a single whitespace character for blank.
validate_non_empty_single_space(value, field_name) ==
    IF value = <<>> \/ (Len(value) = 1 /\ value[1] \in Whitespace)
    THEN UmicpError_validation("Field '{}' cannot be empty", field_name)
    ELSE OkUnit

\* utils.rs validate_non_empty
validate_non_empty(value, field_name) ==
    IF trim(value) = <<>>
    THEN UmicpError_validation("Field '{}' cannot be empty", field_name)
    ELSE OkUnit

\* utils.rs generate_hash: hex(SHA-256(data)). The digest is kept symbolic
\* (a term over the hashed bytes): equal inputs give equal digests and,
\* SHA-256 being taken as collision-free, different inputs different ones.
generate_hash(bytes) == <<"sha256-hex", bytes>>

\* ----------------------------------------------------------------- Envelope

\* Envelope::new leaving message_id empty instead of generating one.
Envelope_new_without_id(random, now) ==
    [version |-> <<"1",".","0">>,
     message_id |-> <<>>,
     timestamp |-> get_current_timestamp(now),
     from |-> <<>>,
     to |-> <<>>,
     operation |-> "Control",
     capabilities |-> None,
     schema_uri |-> None,
     accept |-> None,
     payload_hint |-> None,
     payload_refs |-> None]

\* Envelope::new, given what generate_uuid's random source and the clock give
Envelope_new(random, now) ==
    [version |-> <<"1",".","0">>,
     message_id |-> generate_uuid(random),
     timestamp |-> get_current_timestamp(now),
     from |-> <<>>,
     to |-> <<>>,
     operation |-> "Control",
     capabilities |-> None,
     schema_uri |-> None,
     accept |-> None,
     payload_hint |-> None,
     payload_refs |-> None]

\* set_from refusing an empty argument (a setter that validates).
Envelope_set_from_checked(e, from) == IF from = <<>> THEN e ELSE [e EXCEPT !.from = from]
\* set_from taking a new timestamp as well.
Envelope_set_from_stamping(e, from) == [e EXCEPT !.from = from, !.timestamp = TimeB]
Envelope_set_from(e, from) == [e EXCEPT !.from = from]
Envelope_set_to(e, to) == [e EXCEPT !.to = to]
Envelope_set_operation(e, operation) == [e EXCEPT !.operation = operation]
Envelope_set_capabilities(e, capabilities) == [e EXCEPT !.capabilities = Some(capabilities)]
Envelope_set_schema_uri(e, schema_uri) == [e EXCEPT !.schema_uri = Some(schema_uri)]
Envelope_set_accept(e, accept) == [e EXCEPT !.accept = Some(accept)]
Envelope_set_payload_hint(e, hint) == [e EXCEPT !.payload_hint = Some(hint)]
Envelope_set_payload_refs(e, refs) == [e EXCEPT !.payload_refs = Some(refs)]

\* add_capability storing a fresh one-entry map (a setter that replaces).
Envelope_add_capability_replacing(e, key, value) ==
    {[e EXCEPT !.capabilities = Some(<<<<key, value>>>>)]}

\* Envelope::add_capability: the envelopes the call can leave (one per
\* iteration order the map can end up with).
Envelope_add_capability(e, key, value) ==
    LET caps == IF e.capabilities = None THEN <<>> ELSE Unwrap(e.capabilities)
    IN  {[e EXCEPT !.capabilities = Some(m)] : m \in HashMap_insert(caps, key, value)}

\* The loop of validate over the capabilities, in the map's iteration order.
RECURSIVE ValidateCapabilities(_)
ValidateCapabilities(caps) ==
    IF caps = <<>> THEN OkUnit
    ELSE Try(validate_non_empty(Head(caps)[1], "capability key"),
         Try(validate_non_empty(Head(caps)[2], "capability value"),
             ValidateCapabilities(Tail(caps))))

\* The loop of validate over the accepted content types.
RECURSIVE ValidateAccept(_)
ValidateAccept(accept) ==
    IF accept = <<>> THEN OkUnit
    ELSE Try(validate_non_empty(Head(accept), "accept type"), ValidateAccept(Tail(accept)))

\* Envelope::validate, were `to` checked before `from`
Envelope_validate_to_first(e) ==
    Try(validate_non_empty(e.to, "to"),
    Try(validate_non_empty(e.from, "from"),
    Try(validate_non_empty(e.message_id, "message_id"),
    Try(IF ~validate_uuid(e.message_id)
        THEN UmicpError_validation("Invalid UUID format: {}", e.message_id)
        ELSE OkUnit,
    Try(IF IsSome(e.capabilities)
        THEN ValidateCapabilities(Unwrap(e.capabilities)) ELSE OkUnit,
    Try(IF IsSome(e.schema_uri)
        THEN validate_non_empty(Unwrap(e.schema_uri), "schema_uri") ELSE OkUnit,
    Try(IF IsSome(e.accept) THEN ValidateAccept(Unwrap(e.accept)) ELSE OkUnit,
        OkUnit)))))))

\* Envelope::validate
Envelope_validate(e) ==
    Try(validate_non_empty(e.from, "from"),
    Try(validate_non_empty(e.to, "to"),
    Try(validate_non_empty(e.message_id, "message_id"),
    Try(IF ~validate_uuid(e.message_id)
        THEN UmicpError_validation("Invalid UUID format: {}", e.message_id)
        ELSE OkUnit,
    Try(IF IsSome(e.capabilities)
        THEN ValidateCapabilities(Unwrap(e.capabilities)) ELSE OkUnit,
    Try(IF IsSome(e.schema_uri)
        THEN validate_non_empty(Unwrap(e.schema_uri), "schema_uri") ELSE OkUnit,
    Try(IF IsSome(e.accept) THEN ValidateAccept(Unwrap(e.accept)) ELSE OkUnit,
        OkUnit)))))))

\* Option::map
Option_map(Op(_), o) == IF IsSome(o) THEN Some(Op(Unwrap(o))) ELSE None

\* The hint's count written from its size.
HintToData_count_from_size(hint) ==
    [payload_type |-> PayloadType_to_string(hint.payload_type),
     size |-> hint.size,
     encoding |-> Option_map(EncodingType_to_string, hint.encoding),
     count |-> hint.size]

\* Envelope::to_envelope_data (clone keeps a map's iteration order)
HintToData(hint) ==
    [payload_type |-> PayloadType_to_string(hint.payload_type),
     size |-> hint.size,
     encoding |-> Option_map(EncodingType_to_string, hint.encoding),
     count |-> hint.count]
\* to_envelope_data leaving the payload references out.
Envelope_to_envelope_data_without_refs(e) ==
    [v |-> e.version,
     msg_id |-> e.message_id,
     ts |-> e.timestamp,
     from |-> e.from,
     to |-> e.to,
     op |-> OperationType_to_string(e.operation),
     capabilities |-> e.capabilities,
     schema_uri |-> e.schema_uri,
     accept |-> e.accept,
     payload_hint |-> Option_map(HintToData, e.payload_hint),
     payload_refs |-> None]

Envelope_to_envelope_data(e) ==
    [v |-> e.version,
     msg_id |-> e.message_id,
     ts |-> e.timestamp,
     from |-> e.from,
     to |-> e.to,
     op |-> OperationType_to_string(e.operation),
     capabilities |-> e.capabilities,
     schema_uri |-> e.schema_uri,
     accept |-> e.accept,
     payload_hint |-> Option_map(HintToData, e.payload_hint),
     payload_refs |-> e.payload_refs]

\* --------------------------------------------------------------- JSON text
\* A JSON text is kept as its sequence of tokens in output order: an object
\* is the sequence of its <<name, value>> members.

JStr(s) == [str |-> s]
JNum(n) == [num |-> n]
JArr(xs) == [arr |-> xs]
JObj(members) == [obj |-> members]
JNull == [null |-> TRUE]
IsStr(j) == DOMAIN j = {"str"}
IsNum(j) == DOMAIN j = {"num"}
IsArr(j) == DOMAIN j = {"arr"}
IsObj(j) == DOMAIN j = {"obj"}
IsNull(j) == DOMAIN j = {"null"}

\* #[serde(skip_serializing_if = "Option::is_none")]
OptMember(name, o, Enc(_)) == IF IsSome(o) THEN <<<<name, Enc(Unwrap(o))>>>> ELSE <<>>

\* Serialize for HashMap<String, String>: the entries in iteration order
MapToJson(m) == JObj([i \in DOMAIN m |-> <<m[i][1], JStr(m[i][2])>>])
StringsToJson(xs) == JArr([i \in DOMAIN xs |-> JStr(xs[i])])
MapsToJson(ms) == JArr([i \in DOMAIN ms |-> MapToJson(ms[i])])

\* PayloadHintData serialized without skip_serializing_if: an absent member
\* is written as null.
PayloadHintDataToJson_with_nulls(h) ==
    JObj(<<<<K_type, JStr(h.payload_type)>>,
           <<K_size, IF IsSome(h.size) THEN JNum(Unwrap(h.size)) ELSE JNull>>,
           <<K_encoding, IF IsSome(h.encoding) THEN JStr(Unwrap(h.encoding)) ELSE JNull>>,
           <<K_count, IF IsSome(h.count) THEN JNum(Unwrap(h.count)) ELSE JNull>>>>)

\* derive(Serialize) for PayloadHintData
PayloadHintDataToJson(h) ==
    JObj(<<<<K_type, JStr(h.payload_type)>>>>
         \o OptMember(K_size, h.size, JNum)
         \o OptMember(K_encoding, h.encoding, JStr)
         \o OptMember(K_count, h.count, JNum))

\* serde_json::to_string of an EnvelopeData (derive(Serialize): the fields
\* in declaration order)
serde_json_to_string(d) ==
    JObj(<<<<K_v, JStr(d.v)>>, <<K_msg_id, JStr(d.msg_id)>>, <<K_ts, JStr(d.ts)>>,
           <<K_from, JStr(d.from)>>, <<K_to, JStr(d.to)>>, <<K_op, JStr(d.op)>>>>
         \o OptMember(K_capabilities, d.capabilities, MapToJson)
         \o OptMember(K_schema_uri, d.schema_uri, JStr)
         \o OptMember(K_accept, d.accept, StringsToJson)
         \o OptMember(K_payload_hint, d.payload_hint, PayloadHintDataToJson)
         \o OptMember(K_payload_refs, d.payload_refs, MapsToJson))

\* serialize running validate() first (a serializer that re-validates).
Envelope_serialize_validating(e) ==
    Try(Envelope_validate(e), Ok(serde_json_to_string(Envelope_to_envelope_data(e))))

\* Envelope::serialize
Envelope_serialize(e) == Ok(serde_json_to_string(Envelope_to_envelope_data(e)))

\* Envelope::hash
Envelope_hash(e) ==
    LET serialized == Envelope_serialize(e)
    IN  Try(serialized, Ok(generate_hash(serialized.value)))

\* ------------------------------------------------------------ deserialize

SerdeError(reason, name) == UmicpError_serialization("Failed to deserialize envelope: {}", <<reason, name>>)

\* The values the members called `name` carry, in text order.
MemberValues(members, name) ==
    LET idx == {i \in DOMAIN members : members[i][1] = name}
    IN  [st |-> IF idx = {} THEN "missing" ELSE IF Cardinality(idx) > 1 THEN "duplicate" ELSE "one",
         val |-> IF idx = {} THEN JNull ELSE members[CHOOSE i \in idx : \A j \in idx : j <= i][2]]

\* Deserialize for String / u64
ParseString(j) == IF IsStr(j) THEN Ok(j.str) ELSE SerdeError("invalid type", <<>>)
ParseU64(j) == IF IsNum(j) /\ j.num >= 0 THEN Ok(j.num) ELSE SerdeError("invalid type", <<>>)

\* A Vec<T>: every element must parse.
ParseVec(j, Parse(_)) ==
    IF ~IsArr(j) THEN SerdeError("invalid type", <<>>)
    ELSE IF \E i \in DOMAIN j.arr : ~Parse(j.arr[i]).ok
    THEN SerdeError("invalid type", <<>>)
    ELSE Ok([i \in DOMAIN j.arr |-> Parse(j.arr[i]).value])
ParseStrings(j) == ParseVec(j, ParseString)

\* Deserialize for HashMap<String, String>: the entries as inserted in text
\* order (a repeated name keeps its last value). The iteration order of the
\* new map is chosen in Rehash.
ParseMap(j) ==
    IF ~IsObj(j) THEN SerdeError("invalid type", <<>>)
    ELSE IF \E i \in DOMAIN j.obj : ~IsStr(j.obj[i][2])
    THEN SerdeError("invalid type", <<>>)
    ELSE LET names == {j.obj[i][1] : i \in DOMAIN j.obj}
             entries == {<<n, MemberValues(j.obj, n).val.str>> : n \in names}
         IN  Ok(CHOOSE m \in Orders(entries) : TRUE)
ParseMaps(j) == ParseVec(j, ParseMap)

\* A required field of a derive(Deserialize) struct
Required(members, name, Parse(_)) ==
    LET f == MemberValues(members, name)
    IN  IF f.st = "missing" THEN SerdeError("missing field", name)
        ELSE IF f.st = "duplicate" THEN SerdeError("duplicate field", name)
        ELSE Parse(f.val)

\* An Option<T> field: absent or null is None
Optional(members, name, Parse(_)) ==
    LET f == MemberValues(members, name)
    IN  IF f.st = "missing" THEN Ok(None)
        ELSE IF f.st = "duplicate" THEN SerdeError("duplicate field", name)
        ELSE IF IsNull(f.val) THEN Ok(None)
        ELSE LET r == Parse(f.val) IN Try(r, Ok(Some(r.value)))

\* derive(Deserialize) for PayloadHintData
ParsePayloadHintData(j) ==
    IF ~IsObj(j) THEN SerdeError("invalid type", <<>>)
    ELSE LET t == Required(j.obj, K_type, ParseString)
             size == Optional(j.obj, K_size, ParseU64)
             encoding == Optional(j.obj, K_encoding, ParseString)
             count == Optional(j.obj, K_count, ParseU64)
         IN  Try(t, Try(size, Try(encoding, Try(count,
                 Ok([payload_type |-> t.value, size |-> size.value,
                     encoding |-> encoding.value, count |-> count.value])))))

\* derive(Deserialize) for EnvelopeData: unknown members are ignored, a
\* required member that is absent is an error.
ParseEnvelopeData(json) ==
    IF ~IsObj(json) THEN SerdeError("invalid type", <<>>)
    ELSE LET ms == json.obj
             v == Required(ms, K_v, ParseString)
             msg_id == Required(ms, K_msg_id, ParseString)
             ts == Required(ms, K_ts, ParseString)
             from == Required(ms, K_from, ParseString)
             to == Required(ms, K_to, ParseString)
             op == Required(ms, K_op, ParseString)
             capabilities == Optional(ms, K_capabilities, ParseMap)
             schema_uri == Optional(ms, K_schema_uri, ParseString)
             accept == Optional(ms, K_accept, ParseStrings)
             payload_hint == Optional(ms, K_payload_hint, ParsePayloadHintData)
             payload_refs == Optional(ms, K_payload_refs, ParseMaps)
         IN  Try(v, Try(msg_id, Try(ts, Try(from, Try(to, Try(op,
             Try(capabilities, Try(schema_uri, Try(accept, Try(payload_hint,
             Try(payload_refs,
                 Ok([v |-> v.value, msg_id |-> msg_id.value, ts |-> ts.value,
                     from |-> from.value, to |-> to.value, op |-> op.value,
                     capabilities |-> capabilities.value,
                     schema_uri |-> schema_uri.value,
                     accept |-> accept.value,
                     payload_hint |-> payload_hint.value,
                     payload_refs |-> payload_refs.value]))))))))))))

\* The maps of a freshly deserialized EnvelopeData are new HashMap instances:
\* each can have any iteration order over its entries.
RehashOption(o) == IF IsSome(o) THEN {Some(m) : m \in Orders(Entries(Unwrap(o)))} ELSE {None}
RehashVec(ms) ==
    {s \in [DOMAIN ms -> UNION {Orders(Entries(ms[i])) : i \in DOMAIN ms}] :
        \A i \in DOMAIN ms : Entries(s[i]) = Entries(ms[i])}
Rehash(d) ==
    {[d EXCEPT !.capabilities = c, !.payload_refs = r] :
        c \in RehashOption(d.capabilities),
        r \in IF IsSome(d.payload_refs)
              THEN {Some(s) : s \in RehashVec(Unwrap(d.payload_refs))} ELSE {None}}

\* serde_json::from_str::<EnvelopeData>: the results the call can give
serde_json_from_str(json) ==
    LET r == ParseEnvelopeData(json)
    IN  IF r.ok THEN {Ok(d) : d \in Rehash(r.value)} ELSE {r}

\* An unknown operation name defaulting to Control.
ParseOperation_defaulting(op) ==
    CASE op = <<"d","a","t","a">> -> Ok("Data")
      [] op = <<"a","c","k">> -> Ok("Ack")
      [] op = <<"e","r","r","o","r">> -> Ok("Error")
      [] op = <<"r","e","q","u","e","s","t">> -> Ok("Request")
      [] op = <<"r","e","s","p","o","n","s","e">> -> Ok("Response")
      [] OTHER -> Ok("Control")

\* Envelope::from_envelope_data
ParseOperation(op) ==
    CASE op = <<"c","o","n","t","r","o","l">> -> Ok("Control")
      [] op = <<"d","a","t","a">> -> Ok("Data")
      [] op = <<"a","c","k">> -> Ok("Ack")
      [] op = <<"e","r","r","o","r">> -> Ok("Error")
      [] op = <<"r","e","q","u","e","s","t">> -> Ok("Request")
      [] op = <<"r","e","s","p","o","n","s","e">> -> Ok("Response")
      [] OTHER -> UmicpError_validation("Unknown operation type: {}", op)
ParsePayloadType(t) ==
    CASE t = <<"v","e","c","t","o","r">> -> Ok("Vector")
      [] t = <<"t","e","x","t">> -> Ok("Text")
      [] t = <<"m","e","t","a","d","a","t","a">> -> Ok("Metadata")
      [] t = <<"b","i","n","a","r","y">> -> Ok("Binary")
      [] OTHER -> UmicpError_validation("Unknown payload type: {}", t)
ParseEncoding(enc) ==
    CASE enc = <<"f","l","o","a","t","3","2">> -> Ok("Float32")
      [] enc = <<"f","l","o","a","t","6","4">> -> Ok("Float64")
      [] enc = <<"i","n","t","3","2">> -> Ok("Int32")
      [] enc = <<"i","n","t","6","4">> -> Ok("Int64")
      [] enc = <<"u","i","n","t","8">> -> Ok("Uint8")
      [] enc = <<"u","i","n","t","1","6">> -> Ok("Uint16")
      [] enc = <<"u","i","n","t","3","2">> -> Ok("Uint32")
      [] enc = <<"u","i","n","t","6","4">> -> Ok("Uint64")
      [] OTHER -> UmicpError_validation("Unknown encoding type: {}", enc)
ParseHint(hint) ==
    LET payload_type == ParsePayloadType(hint.payload_type)
        encoding == IF IsSome(hint.encoding)
                    THEN LET r == ParseEncoding(Unwrap(hint.encoding))
                         IN  Try(r, Ok(Some(r.value)))
                    ELSE Ok(None)
    IN  Try(payload_type, Try(encoding,
            Ok(PayloadHint(payload_type.value, hint.size, encoding.value, hint.count))))
Envelope_from_envelope_data(d) ==
    LET operation == ParseOperation(d.op)
        payload_hint == IF IsSome(d.payload_hint)
                        THEN LET r == ParseHint(Unwrap(d.payload_hint))
                             IN  Try(r, Ok(Some(r.value)))
                        ELSE Ok(None)
    IN  Try(operation, Try(payload_hint,
            Ok([version |-> d.v,
                message_id |-> d.msg_id,
                timestamp |-> d.ts,
                from |-> d.from,
                to |-> d.to,
                operation |-> operation.value,
                capabilities |-> d.capabilities,
                schema_uri |-> d.schema_uri,
                accept |-> d.accept,
                payload_hint |-> payload_hint.value,
                payload_refs |-> d.payload_refs])))

\* Envelope::deserialize: the results the call can give on this text
Envelope_deserialize(json) ==
    {Try(r, Envelope_from_envelope_data(r.value)) : r \in serde_json_from_str(json)}

\* ------------------------------------------------------------------ f32
\* An f32 value is the pair <<m, e>> standing for m * 2^e, with m odd (or
\* <<0, 0>> for zero); the infinities and NaN are pairs with an exponent no
\* value has. Every operation computes the exact result and rounds it once,
\* ties to even, to 24 significant bits or to the unit 2^-149 of the
\* subnormal values, whichever is coarser, and gives an infinity when the
\* rounded result reaches 2^128, as IEEE 754 binary32 does. The sign of zero
\* is not kept: 0.0 and -0.0 compare equal and are one value here. `=` on
\* pairs is the equality of values except that it holds of NaN and NaN.
MantissaBits == 24
MinExponent == -149
MaxExponent == 128

Inf == <<1, 1000>>
NegInf == <<-1, 1000>>
NaN == <<0, 1000>>
IsFinite(x) == x[2] # 1000

RECURSIVE Pow2(_)
Pow2(k) == IF k = 0 THEN 1 ELSE 2 * Pow2(k - 1)

RECURSIVE BitLen(_)
BitLen(n) == IF n = 0 THEN 0 ELSE 1 + BitLen(n \div 2)

Abs(n) == IF n < 0 THEN -n ELSE n
Sign(n) == IF n < 0 THEN -1 ELSE 1

RECURSIVE Canonical(_, _)
Canonical(m, e) ==
    IF m = 0 THEN <<0, 0>>
    ELSE IF m % 2 = 0 THEN Canonical(m \div 2, e + 1)
    ELSE <<m, e>>

\* The f32 nearest to m * 2^e (|m| < 2^31). The last k bits of m are cut.
f32_round(m, e) ==
    LET a == Abs(m)
        wide == BitLen(a) - MantissaBits
        low == MinExponent - e
        k == IF wide > low THEN wide ELSE low
        q == IF k > 30 THEN 0 ELSE a \div Pow2(k)
        up == IF k > 31 THEN FALSE
              ELSE IF k = 31 THEN a > Pow2(30)
              ELSE LET r == a % Pow2(k)
                       half == Pow2(k - 1)
                   IN  r > half \/ (r = half /\ q % 2 = 1)
        n == IF k <= 0 THEN a ELSE IF up THEN q + 1 ELSE q
        unit == IF k <= 0 THEN e ELSE e + k
    IN  IF n = 0 THEN <<0, 0>>
        ELSE IF BitLen(n) + unit > MaxExponent THEN <<Sign(m), 1000>>
        ELSE Canonical(Sign(m) * n, unit)

f32(n) == f32_round(n, 0)
f32_neg(x) == <<-x[1], x[2]>>

\* A finite value lies below 2^Top.
Top(x) == BitLen(Abs(x[1])) + x[2]

\* Two values as multiples of the smaller of their units.
Aligned(x, y) ==
    LET e == IF x[2] < y[2] THEN x[2] ELSE y[2]
    IN  [m1 |-> x[1] * Pow2(x[2] - e), m2 |-> y[1] * Pow2(y[2] - e), e |-> e]

\* big + small for finite nonzero values too far apart to be aligned in one
\* machine word: big is written with 28 bits, small is cut at big's unit and
\* what is cut off leaves a sticky bit.
FarSum(big, small) ==
    LET unit == Top(big) - 28
        b == Abs(big[1]) * Pow2(big[2] - unit)
        cut == unit - small[2]
        s == IF cut > 30 THEN 0 ELSE Abs(small[1]) \div Pow2(cut)
        sticky == IF cut > 30 \/ Abs(small[1]) % Pow2(cut) # 0 THEN 1 ELSE 0
        away == IF Sign(big[1]) = Sign(small[1])
                THEN 2 * (b + s) + sticky
                ELSE IF sticky = 1 THEN 2 * (b - s - 1) + 1 ELSE 2 * (b - s)
    IN  f32_round(Sign(big[1]) * away, unit - 1)

f32_add(x, y) ==
    IF x = NaN \/ y = NaN THEN NaN
    ELSE IF ~IsFinite(x) THEN (IF ~IsFinite(y) /\ y # x THEN NaN ELSE x)
    ELSE IF ~IsFinite(y) THEN y
    ELSE IF x[1] = 0 THEN y
    ELSE IF y[1] = 0 THEN x
    ELSE LET big == IF Top(x) >= Top(y) THEN x ELSE y
             small == IF Top(x) >= Top(y) THEN y ELSE x
         IN  IF Top(big) - small[2] <= 29
             THEN LET s == Aligned(x, y) IN f32_round(s.m1 + s.m2, s.e)
             ELSE FarSum(big, small)

f32_sub(x, y) == f32_add(x, f32_neg(y))

\* x > y
f32_gt(x, y) == LET d == f32_sub(y, x) IN d # NaN /\ d[1] < 0

\* The product of two mantissas too long for one machine multiplication, cut
\* to 27 bits: both are split in 12-bit limbs, the partial products summed
\* into `high` * 2^24 + `rest`, and the bits cut off leave a sticky bit.
WideProduct(a, b) ==
    LET limb == Pow2(12)
        low == (a % limb) * (b % limb)
        mid == (a \div limb) * (b % limb) + (a % limb) * (b \div limb) + (low \div limb)
        high == (a \div limb) * (b \div limb) + (mid \div limb)
        rest == (mid % limb) * limb + (low % limb)
        cut == BitLen(high) - 2
        sticky == IF rest % Pow2(cut) = 0 THEN 0 ELSE 1
    IN  [m |-> 2 * (high * Pow2(24 - cut) + (rest \div Pow2(cut))) + sticky, cut |-> cut - 1]

f32_mul(x, y) ==
    IF x = NaN \/ y = NaN THEN NaN
    ELSE IF ~IsFinite(x) \/ ~IsFinite(y)
    THEN (IF x[1] = 0 \/ y[1] = 0 THEN NaN ELSE <<Sign(x[1]) * Sign(y[1]), 1000>>)
    ELSE IF BitLen(Abs(x[1])) + BitLen(Abs(y[1])) <= 30
    THEN f32_round(x[1] * y[1], x[2] + y[2])
    ELSE LET w == WideProduct(Abs(x[1]), Abs(y[1]))
         IN  f32_round(Sign(x[1]) * Sign(y[1]) * w.m, x[2] + y[2] + w.cut)

\* `x as f64` for an f32 x: every f32 value is an f64 value, the pair stays
\* as it is. `x as f32` for an f64 x rounds to the nearest f32.
f32_as_f64(x) == x
f64_as_f32(x) == IF IsFinite(x) THEN f32_round(x[1], x[2]) ELSE x

\* Long division: quotient bits are produced until the quotient has 26 bits
\* or the remainder is zero; a nonzero remainder is the sticky bit.
RECURSIVE DivLoop(_, _, _, _)
DivLoop(rem, b, acc, k) ==
    IF acc >= Pow2(MantissaBits + 1) \/ rem = 0 THEN [acc |-> acc, k |-> k, rem |-> rem]
    ELSE IF 2 * rem >= b THEN DivLoop(2 * rem - b, b, 2 * acc + 1, k + 1)
    ELSE DivLoop(2 * rem, b, 2 * acc, k + 1)

\* x / y
f32_div(x, y) ==
    IF x = NaN \/ y = NaN THEN NaN
    ELSE IF ~IsFinite(x)
    THEN (IF ~IsFinite(y) THEN NaN ELSE <<Sign(x[1]) * Sign(y[1]), 1000>>)
    ELSE IF ~IsFinite(y) THEN <<0, 0>>
    ELSE IF y[1] = 0 THEN (IF x[1] = 0 THEN NaN ELSE <<Sign(x[1]), 1000>>)
    ELSE LET a == Abs(x[1])
             b == Abs(y[1])
             d == DivLoop(a % b, b, a \div b, 0)
             sticky == IF d.rem = 0 THEN 0 ELSE 1
         IN  f32_round(Sign(x[1]) * Sign(y[1]) * (2 * d.acc + sticky), x[2] - y[2] - d.k - 1)

RECURSIVE Isqrt(_)
Isqrt(n) ==
    IF n < 2 THEN n
    ELSE LET s == 2 * Isqrt(n \div 4)
         IN  IF (s + 1) * (s + 1) <= n THEN s + 1 ELSE s

\* Digit-by-digit square root: root = floor(sqrt(n * 4^k)), rem the rest.
RECURSIVE SqrtLoop(_, _, _)
SqrtLoop(root, rem, k) ==
    IF root >= Pow2(MantissaBits + 1) \/ rem = 0 THEN [root |-> root, k |-> k, rem |-> rem]
    ELSE IF 4 * rem >= 4 * root + 1
         THEN SqrtLoop(2 * root + 1, 4 * rem - (4 * root + 1), k + 1)
         ELSE SqrtLoop(2 * root, 4 * rem, k + 1)

\* f32::sqrt
f32_sqrt(x) ==
    IF x = NaN \/ x[1] < 0 THEN NaN
    ELSE IF x[1] = 0 \/ ~IsFinite(x) THEN x
    ELSE LET odd == x[2] % 2 = 1
             n == IF odd THEN 2 * x[1] ELSE x[1]
             e == IF odd THEN x[2] - 1 ELSE x[2]
             r0 == Isqrt(n)
             s == SqrtLoop(r0, n - r0 * r0, 0)
             sticky == IF s.rem = 0 THEN 0 ELSE 1
         IN  f32_round(2 * s.root + sticky, (e \div 2) - s.k - 1)

\* ---------------------------------------------------------------- usize
\* A usize (64 bits) is the pair <<hi, lo>> standing for hi * 2^62 + lo with
\* hi in 0..3 and lo far below 2^31: the lengths and indices of the model's
\* buffers, and dimensions near 2^62, 2^63 and 3 * 2^62. Products and sums of
\* such values are exact in this form; `overflow` tells that the true result
\* does not fit 64 bits and `value` is the result modulo 2^64.
usize(n) == <<0, n>>

usize_mul(x, y) ==
    LET cross == x[1] * y[2] + y[1] * x[2]
    IN  [overflow |-> x[1] * y[1] > 0 \/ cross >= 4,
         value |-> <<cross % 4, x[2] * y[2]>>]

usize_add(x, y) ==
    [overflow |-> x[1] + y[1] >= 4,
     value |-> <<(x[1] + y[1]) % 4, x[2] + y[2]>>]

usize_le(x, y) == x[1] < y[1] \/ (x[1] = y[1] /\ x[2] <= y[2])
usize_lt(x, y) == x # y /\ usize_le(x, y)

\* A panic unwinds out of the call: the caller gets neither Ok nor Err.
Panic(message) == [ok |-> FALSE, kind |-> "panic", message |-> message]

\* `x * y` and `x + y` on usize: a build with overflow checks (the debug
\* profile) panics when the result does not fit, a build without them (the
\* release profile) wraps.
Mul(x, y, overflow_checks) ==
    IF usize_mul(x, y).overflow /\ overflow_checks
    THEN Panic("attempt to multiply with overflow")
    ELSE Ok(usize_mul(x, y).value)

Add(x, y, overflow_checks) ==
    IF usize_add(x, y).overflow /\ overflow_checks
    THEN Panic("attempt to add with overflow")
    ELSE Ok(usize_add(x, y).value)

\* `x * y + z`
MulAdd(x, y, z, overflow_checks) ==
    LET product == Mul(x, y, overflow_checks)
    IN  Try(product, Add(product.value, z, overflow_checks))

\* `buffer[at]`: is the index inside the slice (else the access panics)
InBounds(buffer, at) == at.ok /\ usize_lt(at.value, usize(Len(buffer)))
At(buffer, at) == buffer[at.value[2] + 1]

\* ----------------------------------------------------------------- Matrix
\* types.rs MatrixResult
MatrixResult(result, similarity, data) ==
    [success |-> TRUE, error |-> None, result |-> result,
     similarity |-> similarity, data |-> data]

\* What a call leaves behind: what it returned (Ok, Err or a panic) and the
\* contents of its `&mut` buffer afterwards.
Returns(returned, buffer) == [returned |-> returned, buffer |-> buffer]
Running(buffer) == [panic |-> FALSE, buffer |-> buffer]
Panicked(buffer) == [panic |-> TRUE, buffer |-> buffer]
Finish(run, result) ==
    IF run.panic
    THEN Returns(Panic("index out of bounds"), run.buffer)
    ELSE Returns(Ok(result), run.buffer)

\* Matrix::validate_dimensions
validate_dimensions(a_len, b_len, result_len, rows, cols, overflow_checks) ==
    LET expected_len == Mul(rows, cols, overflow_checks)
    IN  Try(expected_len,
            IF \/ usize(a_len) # expected_len.value
               \/ usize(b_len) # expected_len.value
               \/ usize(result_len) # expected_len.value
            THEN UmicpError_matrix("Invalid matrix dimensions: expected {}x{} ({} elements), got a({}), b({}), result({})")
            ELSE OkUnit)

\* Matrix::add_sequential: for i in 0..a.len() { result[i] = a[i] + b[i] }
add_sequential(a, b, result) ==
    [i \in DOMAIN result |-> IF i <= Len(a) THEN f32_add(a[i], b[i]) ELSE result[i]]

\* Matrix::add_parallel
add_parallel(a, b, result, rows, cols) ==
    [i \in DOMAIN result |-> IF i <= Len(a) THEN f32_add(a[i], b[i]) ELSE result[i]]

\* Matrix::add, were the sum also returned in `data`
Matrix_add_returning_data(a, b, result, rows, cols, overflow_checks) ==
    LET valid == validate_dimensions(Len(a), Len(b), Len(result), rows, cols, overflow_checks)
        count == Mul(rows, cols, overflow_checks)
    IN  IF ~valid.ok THEN Returns(valid, result)
        ELSE Returns(Ok(MatrixResult(None, None, Some(add_sequential(a, b, result)))),
                     add_sequential(a, b, result))

\* Matrix::add
Matrix_add(a, b, result, rows, cols, overflow_checks) ==
    LET valid == validate_dimensions(Len(a), Len(b), Len(result), rows, cols, overflow_checks)
        count == Mul(rows, cols, overflow_checks)
    IN  IF ~valid.ok THEN Returns(valid, result)
        ELSE Returns(Ok(MatrixResult(None, None, None)),
                     IF usize_lt(usize(1000), count.value)
                     THEN add_parallel(a, b, result, rows, cols)
                     ELSE add_sequential(a, b, result))

\* The k loop of Matrix::multiply_sequential for the element (i, j)
RECURSIVE sequential_element(_, _, _, _, _, _, _, _, _)
sequential_element(a, b, result, n, p, overflow_checks, i, j, k) ==
    IF ~usize_lt(usize(k), n) THEN Running(result)
    ELSE LET result_at == MulAdd(usize(i), p, usize(j), overflow_checks)
             a_at == MulAdd(usize(i), n, usize(k), overflow_checks)
             b_at == MulAdd(usize(k), p, usize(j), overflow_checks)
         IN  IF ~(InBounds(result, result_at) /\ InBounds(a, a_at) /\ InBounds(b, b_at))
             THEN Panicked(result)
             ELSE sequential_element(
                      a, b,
                      [result EXCEPT ![result_at.value[2] + 1] =
                           f32_add(@, f32_mul(At(a, a_at), At(b, b_at)))],
                      n, p, overflow_checks, i, j, k + 1)

\* The j loop of Matrix::multiply_sequential for the row i
RECURSIVE sequential_row(_, _, _, _, _, _, _, _)
sequential_row(a, b, result, n, p, overflow_checks, i, j) ==
    IF ~usize_lt(usize(j), p) THEN Running(result)
    ELSE LET element == sequential_element(a, b, result, n, p, overflow_checks, i, j, 0)
         IN  IF element.panic THEN element
             ELSE sequential_row(a, b, element.buffer, n, p, overflow_checks, i, j + 1)

\* Matrix::multiply_sequential, from row i on. The loops run in order until
\* they end or an index leaves its slice. When p or n is zero no iteration
\* has a body to run.
RECURSIVE multiply_sequential(_, _, _, _, _, _, _, _)
multiply_sequential(a, b, result, m, n, p, overflow_checks, i) ==
    IF ~usize_lt(usize(i), m) \/ p = usize(0) \/ n = usize(0) THEN Running(result)
    ELSE LET row == sequential_row(a, b, result, n, p, overflow_checks, i, 0)
         IN  IF row.panic THEN row
             ELSE multiply_sequential(a, b, row.buffer, m, n, p, overflow_checks, i + 1)

\* The k loop of Matrix::multiply_parallel for the element (i, j): the sum
RECURSIVE parallel_sum(_, _, _, _, _, _, _, _, _)
parallel_sum(a, b, n, p, overflow_checks, i, j, k, sum) ==
    IF ~usize_lt(usize(k), n) THEN [panic |-> FALSE, sum |-> sum]
    ELSE LET a_at == MulAdd(usize(i), n, usize(k), overflow_checks)
             b_at == MulAdd(usize(k), p, usize(j), overflow_checks)
         IN  IF ~(InBounds(a, a_at) /\ InBounds(b, b_at)) THEN [panic |-> TRUE, sum |-> sum]
             ELSE parallel_sum(a, b, n, p, overflow_checks, i, j, k + 1,
                               f32_add(sum, f32_mul(At(a, a_at), At(b, b_at))))

\* The j loop of Matrix::multiply_parallel for the row i
RECURSIVE parallel_row(_, _, _, _, _, _, _, _)
parallel_row(a, b, result, n, p, overflow_checks, i, j) ==
    IF ~usize_lt(usize(j), p) THEN Running(result)
    ELSE LET element == parallel_sum(a, b, n, p, overflow_checks, i, j, 0, f32(0))
             result_at == MulAdd(usize(i), p, usize(j), overflow_checks)
         IN  IF element.panic \/ ~InBounds(result, result_at) THEN Panicked(result)
             ELSE parallel_row(a, b, [result EXCEPT ![result_at.value[2] + 1] = element.sum],
                               n, p, overflow_checks, i, j + 1)

\* Matrix::multiply_parallel, from row i on
RECURSIVE multiply_parallel(_, _, _, _, _, _, _, _)
multiply_parallel(a, b, result, m, n, p, overflow_checks, i) ==
    IF ~usize_lt(usize(i), m) \/ p = usize(0) THEN Running(result)
    ELSE LET row == parallel_row(a, b, result, n, p, overflow_checks, i, 0)
         IN  IF row.panic THEN row
             ELSE multiply_parallel(a, b, row.buffer, m, n, p, overflow_checks, i + 1)

\* Matrix::multiply without `result.fill(0.0)`
Matrix_multiply_accumulating(a, b, result, m, n, p, overflow_checks) ==
    LET a_len == Mul(m, n, overflow_checks)
        b_len == Mul(n, p, overflow_checks)
        result_len == Mul(m, p, overflow_checks)
        volume == Mul(a_len.value, p, overflow_checks)
    IN  IF ~a_len.ok THEN Returns(a_len, result)
        ELSE IF ~b_len.ok THEN Returns(b_len, result)
        ELSE IF ~result_len.ok THEN Returns(result_len, result)
        ELSE IF \/ usize(Len(a)) # a_len.value
                \/ usize(Len(b)) # b_len.value
                \/ usize(Len(result)) # result_len.value
        THEN Returns(UmicpError_matrix("Invalid matrix dimensions: a({}) != {}x{}, b({}) != {}x{}, result({}) != {}x{}"),
                     result)
        ELSE IF ~volume.ok THEN Returns(volume, result)
        ELSE Finish(IF usize_lt(usize(10000), volume.value)
                    THEN multiply_parallel(a, b, result, m, n, p, overflow_checks, 0)
                    ELSE multiply_sequential(a, b, result, m, n, p, overflow_checks, 0),
                    MatrixResult(None, None, None))

\* Matrix::multiply
Matrix_multiply(a, b, result, m, n, p, overflow_checks) ==
    LET a_len == Mul(m, n, overflow_checks)
        b_len == Mul(n, p, overflow_checks)
        result_len == Mul(m, p, overflow_checks)
        zeros == [i \in DOMAIN result |-> f32(0)]
        volume == Mul(a_len.value, p, overflow_checks)
    IN  IF ~a_len.ok THEN Returns(a_len, result)
        ELSE IF ~b_len.ok THEN Returns(b_len, result)
        ELSE IF ~result_len.ok THEN Returns(result_len, result)
        ELSE IF \/ usize(Len(a)) # a_len.value
                \/ usize(Len(b)) # b_len.value
                \/ usize(Len(result)) # result_len.value
        THEN Returns(UmicpError_matrix("Invalid matrix dimensions: a({}) != {}x{}, b({}) != {}x{}, result({}) != {}x{}"),
                     result)
        ELSE IF ~volume.ok THEN Returns(volume, zeros)
        ELSE Finish(IF usize_lt(usize(10000), volume.value)
                    THEN multiply_parallel(a, b, zeros, m, n, p, overflow_checks, 0)
                    ELSE multiply_sequential(a, b, zeros, m, n, p, overflow_checks, 0),
                    MatrixResult(None, None, None))

\* The loops of Matrix::transpose, were the output index j * cols + i
RECURSIVE transpose_loop_striding_cols(_, _, _, _, _, _, _)
transpose_loop_striding_cols(input, output, rows, cols, overflow_checks, i, j) ==
    IF ~usize_lt(usize(i), rows) \/ cols = usize(0) THEN Running(output)
    ELSE IF ~usize_lt(usize(j), cols)
         THEN transpose_loop_striding_cols(input, output, rows, cols, overflow_checks, i + 1, 0)
    ELSE LET output_at == MulAdd(usize(j), cols, usize(i), overflow_checks)
             input_at == MulAdd(usize(i), cols, usize(j), overflow_checks)
         IN  IF ~(InBounds(output, output_at) /\ InBounds(input, input_at))
             THEN Panicked(output)
             ELSE transpose_loop_striding_cols(
                      input,
                      [output EXCEPT ![output_at.value[2] + 1] = At(input, input_at)],
                      rows, cols, overflow_checks, i, j + 1)

\* The loops of Matrix::transpose, from iteration (i, j) on
RECURSIVE transpose_loop(_, _, _, _, _, _, _)
transpose_loop(input, output, rows, cols, overflow_checks, i, j) ==
    IF ~usize_lt(usize(i), rows) \/ cols = usize(0) THEN Running(output)
    ELSE IF ~usize_lt(usize(j), cols)
         THEN transpose_loop(input, output, rows, cols, overflow_checks, i + 1, 0)
    ELSE LET output_at == MulAdd(usize(j), rows, usize(i), overflow_checks)
             input_at == MulAdd(usize(i), cols, usize(j), overflow_checks)
         IN  IF ~(InBounds(output, output_at) /\ InBounds(input, input_at))
             THEN Panicked(output)
             ELSE transpose_loop(
                      input,
                      [output EXCEPT ![output_at.value[2] + 1] = At(input, input_at)],
                      rows, cols, overflow_checks, i, j + 1)

\* Matrix::transpose
Matrix_transpose(input, output, rows, cols, overflow_checks) ==
    LET input_len == Mul(rows, cols, overflow_checks)
        output_len == Mul(cols, rows, overflow_checks)
    IN  IF ~input_len.ok THEN Returns(input_len, output)
        ELSE IF ~output_len.ok THEN Returns(output_len, output)
        ELSE IF usize(Len(input)) # input_len.value \/ usize(Len(output)) # output_len.value
        THEN Returns(UmicpError_matrix("Invalid transpose dimensions: input({}) != {}x{}, output({}) != {}x{}"),
                     output)
        ELSE Finish(transpose_loop(input, output, rows, cols, overflow_checks, 0, 0),
                    MatrixResult(None, None, None))

\* row_slice.iter().map(|x| x * x).sum::<f32>()
RECURSIVE SumOfSquares(_, _)
SumOfSquares(row_slice, acc) ==
    IF row_slice = <<>> THEN acc
    ELSE SumOfSquares(Tail(row_slice), f32_add(acc, f32_mul(Head(row_slice), Head(row_slice))))

\* The row loop of Matrix::normalize, were the norm taken over the whole
\* matrix instead of the row.
RECURSIVE normalize_rows_by_whole_norm(_, _, _, _, _)
normalize_rows_by_whole_norm(matrix, rows, cols, overflow_checks, row) ==
    IF ~usize_lt(usize(row), rows) \/ cols = usize(0) THEN Running(matrix)
    ELSE LET start == Mul(usize(row), cols, overflow_checks)
             end == Try(start, Add(start.value, cols, overflow_checks))
         IN  IF \/ ~end.ok
                \/ ~usize_le(start.value, end.value)
                \/ ~usize_le(end.value, usize(Len(matrix)))
             THEN Panicked(matrix)
             ELSE LET first == start.value[2] + 1
                      last == end.value[2]
                      norm == f32_sqrt(SumOfSquares(matrix, f32(0)))
                  IN  normalize_rows_by_whole_norm(
                          IF f32_gt(norm, f32(0))
                          THEN [x \in DOMAIN matrix |->
                                   IF first <= x /\ x <= last
                                   THEN f32_div(matrix[x], norm)
                                   ELSE matrix[x]]
                          ELSE matrix,
                          rows, cols, overflow_checks, row + 1)

\* The row loop of Matrix::normalize, from `row` on. With cols = 0 every row
\* slice is empty and nothing is written.
RECURSIVE normalize_rows(_, _, _, _, _)
normalize_rows(matrix, rows, cols, overflow_checks, row) ==
    IF ~usize_lt(usize(row), rows) \/ cols = usize(0) THEN Running(matrix)
    ELSE LET start == Mul(usize(row), cols, overflow_checks)
             end == Try(start, Add(start.value, cols, overflow_checks))
         IN  IF \/ ~end.ok
                \/ ~usize_le(start.value, end.value)
                \/ ~usize_le(end.value, usize(Len(matrix)))
             THEN Panicked(matrix)
             ELSE LET first == start.value[2] + 1
                      last == end.value[2]
                      norm == f32_sqrt(SumOfSquares(SubSeq(matrix, first, last), f32(0)))
                  IN  normalize_rows(
                          IF f32_gt(norm, f32(0))
                          THEN [x \in DOMAIN matrix |->
                                   IF first <= x /\ x <= last
                                   THEN f32_div(matrix[x], norm)
                                   ELSE matrix[x]]
                          ELSE matrix,
                          rows, cols, overflow_checks, row + 1)

\* Matrix::normalize
Matrix_normalize(matrix, rows, cols, overflow_checks) ==
    LET matrix_len == Mul(rows, cols, overflow_checks)
        run == normalize_rows(matrix, rows, cols, overflow_checks, 0)
    IN  IF ~matrix_len.ok THEN Returns(matrix_len, matrix)
        ELSE IF usize(Len(matrix)) # matrix_len.value
        THEN Returns(UmicpError_matrix("Invalid matrix dimensions: matrix({}) != {}x{}"), matrix)
        ELSE Finish(run, MatrixResult(None, None, Some(run.buffer)))

\* The length check shared by vector_add, vector_subtract and vector_multiply
VectorLengthMismatch(a, b, result) == Len(a) # Len(b) \/ Len(a) # Len(result)

\* Matrix::vector_add
Matrix_vector_add(a, b, result) ==
    IF VectorLengthMismatch(a, b, result)
    THEN Returns(UmicpError_matrix("Vector length mismatch: a({}), b({}), result({})"), result)
    ELSE Returns(Ok(MatrixResult(None, None, None)),
                 [i \in DOMAIN result |-> f32_add(a[i], b[i])])

\* vector_subtract with its operands exchanged.
Matrix_vector_subtract_swapped(a, b, result) ==
    IF VectorLengthMismatch(a, b, result)
    THEN Returns(UmicpError_matrix("Vector length mismatch: a({}), b({}), result({})"), result)
    ELSE Returns(Ok(MatrixResult(None, None, None)),
                 [i \in DOMAIN result |-> f32_sub(b[i], a[i])])

\* Matrix::vector_subtract
Matrix_vector_subtract(a, b, result) ==
    IF VectorLengthMismatch(a, b, result)
    THEN Returns(UmicpError_matrix("Vector length mismatch: a({}), b({}), result({})"), result)
    ELSE Returns(Ok(MatrixResult(None, None, None)),
                 [i \in DOMAIN result |-> f32_sub(a[i], b[i])])

\* Matrix::vector_multiply
Matrix_vector_multiply(a, b, result) ==
    IF VectorLengthMismatch(a, b, result)
    THEN Returns(UmicpError_matrix("Vector length mismatch: a({}), b({}), result({})"), result)
    ELSE Returns(Ok(MatrixResult(None, None, None)),
                 [i \in DOMAIN result |-> f32_mul(a[i], b[i])])

\* Matrix::vector_scale
Matrix_vector_scale(vector, scalar, result) ==
    IF Len(vector) # Len(result)
    THEN Returns(UmicpError_matrix("Vector length mismatch: vector({}), result({})"), result)
    ELSE Returns(Ok(MatrixResult(None, None, None)),
                 [i \in DOMAIN result |-> f32_mul(vector[i], scalar)])

\* a.iter().zip(b.iter()).map(|(x, y)| x * y).sum(): the products are added
\* to the running sum in index order.
RECURSIVE SumOfProducts(_, _, _)
SumOfProducts(a, b, acc) ==
    IF a = <<>> \/ b = <<>> THEN acc
    ELSE SumOfProducts(Tail(a), Tail(b), f32_add(acc, f32_mul(Head(a), Head(b))))

\* Matrix::dot_product_simd
dot_product_simd(a, b) == SumOfProducts(a, b, f32(0))

\* dot_product whose path for long vectors adds the products last to first.
Matrix_dot_product_reversing(a, b) ==
    IF Len(a) # Len(b)
    THEN UmicpError_matrix("Vector length mismatch: a({}) != b({})")
    ELSE LET Reverse(v) == [i \in DOMAIN v |-> v[Len(v) + 1 - i]]
         IN  Ok(MatrixResult(
                    Some(f32_as_f64(IF Len(a) >= 8
                                    THEN SumOfProducts(Reverse(a), Reverse(b), f32(0))
                                    ELSE SumOfProducts(a, b, f32(0)))),
                    None, None))

\* Matrix::dot_product
Matrix_dot_product(a, b) ==
    IF Len(a) # Len(b)
    THEN UmicpError_matrix("Vector length mismatch: a({}) != b({})")
    ELSE LET result == IF Len(a) >= 8
                       THEN dot_product_simd(a, b)
                       ELSE SumOfProducts(a, b, f32(0))
         IN  Ok(MatrixResult(Some(f32_as_f64(result)), None, None))

\* a.iter().map(|x| x * x).sum::<f32>().sqrt()
Magnitude(v) == f32_sqrt(SumOfSquares(v, f32(0)))

\* cosine_similarity refusing a vector of magnitude zero.
Matrix_cosine_similarity_rejecting_zero(a, b) ==
    IF Len(a) # Len(b) \/ Magnitude(a) = f32(0) \/ Magnitude(b) = f32(0)
    THEN UmicpError_matrix("Vector length mismatch: a({}) != b({})")
    ELSE Ok(MatrixResult(
                None,
                Some(f32_as_f64(f32_div(SumOfProducts(a, b, f32(0)),
                                        f32_mul(Magnitude(a), Magnitude(b))))),
                None))

\* Matrix::cosine_similarity
Matrix_cosine_similarity(a, b) ==
    IF Len(a) # Len(b)
    THEN UmicpError_matrix("Vector length mismatch: a({}) != b({})")
    ELSE LET dot_result == Matrix_dot_product(a, b)
             dot_product == f64_as_f32(Unwrap(dot_result.value.result))
             a_magnitude == Magnitude(a)
             b_magnitude == Magnitude(b)
             similarity == f32_div(dot_product, f32_mul(a_magnitude, b_magnitude))
         IN  Try(dot_result,
                 IF a_magnitude = f32(0) \/ b_magnitude = f32(0)
                 THEN Ok(MatrixResult(None, Some(f32_as_f64(f32(0))), None))
                 ELSE Ok(MatrixResult(None, Some(f32_as_f64(similarity)), None)))

\* determinant expanding along the first row (a 3x3 rule).
Matrix_determinant_sarrus(matrix, size, overflow_checks) ==
    LET matrix_len == Mul(size, size, overflow_checks)
        Minor(x, y, u, v) ==
            f32_sub(f32_mul(matrix[x], matrix[y]), f32_mul(matrix[u], matrix[v]))
    IN  IF ~matrix_len.ok THEN matrix_len
        ELSE IF usize(Len(matrix)) # matrix_len.value
        THEN UmicpError_matrix("Invalid matrix dimensions for determinant: matrix({}) != {}x{}")
        ELSE IF size = usize(1) THEN Ok(MatrixResult(Some(f32_as_f64(matrix[1])), None, None))
        ELSE IF size = usize(2)
        THEN Ok(MatrixResult(Some(f32_as_f64(Minor(1, 4, 2, 3))), None, None))
        ELSE IF size = usize(3)
        THEN Ok(MatrixResult(
                    Some(f32_as_f64(
                        f32_add(f32_sub(f32_mul(matrix[1], Minor(5, 9, 6, 8)),
                                        f32_mul(matrix[2], Minor(4, 9, 6, 7))),
                                f32_mul(matrix[3], Minor(4, 8, 5, 7))))),
                    None, None))
        ELSE UmicpError_matrix("Determinant calculation for matrices larger than 2x2 not yet implemented")

\* Matrix::determinant, were the two products added
Matrix_determinant_permanent(matrix, size, overflow_checks) ==
    LET matrix_len == Mul(size, size, overflow_checks)
        det == f32_add(f32_mul(matrix[1], matrix[4]), f32_mul(matrix[2], matrix[3]))
    IN  IF ~matrix_len.ok THEN matrix_len
        ELSE IF usize(Len(matrix)) # matrix_len.value
        THEN UmicpError_matrix("Invalid matrix dimensions for determinant: matrix({}) != {}x{}")
        ELSE IF size = usize(1) THEN Ok(MatrixResult(Some(f32_as_f64(matrix[1])), None, None))
        ELSE IF size = usize(2) THEN Ok(MatrixResult(Some(f32_as_f64(det)), None, None))
        ELSE UmicpError_matrix("Determinant calculation for matrices larger than 2x2 not yet implemented")

\* Matrix::determinant
Matrix_determinant(matrix, size, overflow_checks) ==
    LET matrix_len == Mul(size, size, overflow_checks)
        det == f32_sub(f32_mul(matrix[1], matrix[4]), f32_mul(matrix[2], matrix[3]))
    IN  IF ~matrix_len.ok THEN matrix_len
        ELSE IF usize(Len(matrix)) # matrix_len.value
        THEN UmicpError_matrix("Invalid matrix dimensions for determinant: matrix({}) != {}x{}")
        ELSE IF size = usize(1) THEN Ok(MatrixResult(Some(f32_as_f64(matrix[1])), None, None))
        ELSE IF size = usize(2) THEN Ok(MatrixResult(Some(f32_as_f64(det)), None, None))
        ELSE UmicpError_matrix("Determinant calculation for matrices larger than 2x2 not yet implemented")

\* Matrix::inverse that also inverts a 1x1 matrix.
Matrix_inverse_scalar(matrix, result, size, overflow_checks) ==
    LET matrix_len == Mul(size, size, overflow_checks)
        det == f32_sub(f32_mul(matrix[1], matrix[4]), f32_mul(matrix[2], matrix[3]))
        inverted == [result EXCEPT ![1] = f32_div(matrix[4], det),
                                   ![2] = f32_div(f32_neg(matrix[2]), det),
                                   ![3] = f32_div(f32_neg(matrix[3]), det),
                                   ![4] = f32_div(matrix[1], det)]
        reciprocal == [result EXCEPT ![1] = f32_div(f32(1), matrix[1])]
    IN  IF ~matrix_len.ok THEN Returns(matrix_len, result)
        ELSE IF usize(Len(matrix)) # matrix_len.value \/ usize(Len(result)) # matrix_len.value
        THEN Returns(UmicpError_matrix("Invalid matrix dimensions for inverse: matrix({}) != {}x{}, result({}) != {}x{}"),
                     result)
        ELSE IF size = usize(2)
        THEN IF det = f32(0)
             THEN Returns(UmicpError_matrix("Matrix is singular, cannot compute inverse"), result)
             ELSE Returns(Ok(MatrixResult(None, None, Some(inverted))), inverted)
        ELSE IF size = usize(1) /\ matrix[1] # f32(0)
        THEN Returns(Ok(MatrixResult(None, None, Some(reciprocal))), reciprocal)
        ELSE Returns(UmicpError_matrix("Matrix inverse for matrices larger than 2x2 not yet implemented"),
                     result)

\* Matrix::inverse
Matrix_inverse(matrix, result, size, overflow_checks) ==
    LET matrix_len == Mul(size, size, overflow_checks)
        det == f32_sub(f32_mul(matrix[1], matrix[4]), f32_mul(matrix[2], matrix[3]))
        inverted == [result EXCEPT ![1] = f32_div(matrix[4], det),
                                   ![2] = f32_div(f32_neg(matrix[2]), det),
                                   ![3] = f32_div(f32_neg(matrix[3]), det),
                                   ![4] = f32_div(matrix[1], det)]
    IN  IF ~matrix_len.ok THEN Returns(matrix_len, result)
        ELSE IF usize(Len(matrix)) # matrix_len.value \/ usize(Len(result)) # matrix_len.value
        THEN Returns(UmicpError_matrix("Invalid matrix dimensions for inverse: matrix({}) != {}x{}, result({}) != {}x{}"),
                     result)
        ELSE IF size = usize(2)
        THEN IF det = f32(0)
             THEN Returns(UmicpError_matrix("Matrix is singular, cannot compute inverse"), result)
             ELSE Returns(Ok(MatrixResult(None, None, Some(inverted))), inverted)
        ELSE Returns(UmicpError_matrix("Matrix inverse for matrices larger than 2x2 not yet implemented"),
                     result)

\* --------------------------------------------------- the calling program
\* The arguments the calling code passes.

Identifiers == {<<>>, <<" ">>, <<"a">>}

UuidGiven == <<"9","3","6","d","a","0","1","f","-","9","a","b","d","-","4","d","9","d","-","8","0","c","7","-","0","2","a","f","8","5","c","8","2","2","a","8">>
UuidUpper == <<"9","3","6","D","A","0","1","F","-","9","A","B","D","-","4","D","9","D","-","8","0","C","7","-","0","2","A","F","8","5","C","8","2","2","A","8">>
UuidSimple == <<"9","3","6","d","a","0","1","f","9","a","b","d","4","d","9","d","8","0","c","7","0","2","a","f","8","5","c","8","2","2","a","8">>
UuidPadded == <<" ","9","3","6","d","a","0","1","f","-","9","a","b","d","-","4","d","9","d","-","8","0","c","7","-","0","2","a","f","8","5","c","8","2","2","a","8">>
NotUuid == <<"i","n","v","a","l","i","d","-","u","u","i","d">>
MessageIds == {UuidGiven, UuidUpper, UuidSimple, UuidPadded, NotUuid, <<>>, <<" ">>}

CapabilityArgs ==
    {<<<<"k">>, <<"v">>>>, <<<<"k">>, <<"w">>>>, <<<<"p">>, <<"v">>>>,
     <<<<>>, <<"v">>>>, <<<<"k">>, <<>>>>, <<<<"k">>, <<" ">>>>}
CapabilityMaps ==
    {<<>>,
     <<<<<<"k">>, <<"v">>>>>>,
     <<<<<<"k">>, <<"v">>>>, <<<<"p">>, <<"w">>>>>>,
     <<<<<<"p">>, <<"w">>>>, <<<<"k">>, <<"v">>>>>>,
     <<<<<<"k">>, <<>>>>>>}
SchemaUris == {<<>>, <<" ">>, <<"s">>}
AcceptLists == {<<>>, <<<<"x">>>>, <<<<"x">>, <<>>>>, <<<<"x">>, <<"y">>>>}
PayloadHints ==
    {PayloadHint(t, None, None, None) : t \in PayloadTypes}
      \cup {PayloadHint("Vector", None, Some(enc), None) : enc \in EncodingTypes}
      \cup {PayloadHint("Vector", Some(3072), Some("Float32"), Some(768)),
            PayloadHint("Binary", Some(0), None, None),
            PayloadHint("Text", None, None, Some(0))}
PayloadRefsArgs ==
    {<<>>,
     <<<<>>>>,
     <<<<<<<<"k">>, <<"v">>>>>>>>,
     <<<<<<<<"k">>, <<"v">>>>, <<<<"p">>, <<"w">>>>>>, <<>>>>}

\* The buffers, dimensions and scalars kernel calls are made with. A result
\* buffer holds stale values (7.0) before the call. HugeDimension is 2^63 + 1.
Values == {f32(0), f32(3)}
Buffers == UNION {[1..n -> Values] : n \in 0..MaxLen}
ResultBuffers == {[i \in 1..n |-> f32(7)] : n \in 0..MaxLen}
HugeDimension == <<2, 1>>
Dimensions == {usize(0), usize(1), usize(2), HugeDimension}
Scalars == {f32(-1), f32(0), f32(2)}

\* Longer buffers are thin: all elements alike but for the first.
\* Big is 2^100, whose square is beyond the largest f32; Tiny is 2^-100,
\* whose square is below the smallest.
Big == <<1, 100>>
Tiny == <<1, -100>>
Stale(n) == [i \in 1..n |-> f32(7)]
Thin(values, n) == {[i \in 1..n |-> IF i = 1 THEN x ELSE y] : x \in values, y \in values}

\* The two matrices of the large multiplication, and what its output buffer
\* holds before the call.
Patterned(n, step) == [i \in 1..n |-> f32((i * step) % 5)]
LargeLeft == Patterned(LargeSide * LargeSide, 2)
LargeRight == Patterned(LargeSide * LargeSide, 3)
LargeResult == Patterned(LargeSide * LargeSide, 1)

\* What normalize is called with: the short buffers, one with a row too
\* small for its squares and one with an element too large for its square.
NormalizeInputs ==
    Buffers \cup {<<Tiny, Tiny, f32(3), f32(1)>>, <<Big, f32(3), f32(0), f32(0)>>}

\* What transpose is called with: the short buffers, and longer ones whose
\* elements all differ.
Counted(n) == [i \in 1..n |-> f32(i)]
TransposeInputs == Buffers \cup {Counted(n) : n \in 0..MaxTransposeLen}
TransposeOutputs == {Stale(n) : n \in 0..MaxTransposeLen}
TransposeDimensions == Dimensions \cup {usize(3)}

\* The vectors dot_product and cosine_similarity are called with.
VectorValues == {f32(0), f32(1), f32(4097), Big, Tiny}
Vectors == UNION {Thin(VectorValues, n) : n \in 0..MaxVectorLen}

\* The square matrices determinant and inverse are called with: every
\* matrix of size 0, 1 and 2 over four values, thin buffers of the other
\* lengths, and the matrices [1,2,3,4] and [2,1,1,3].
SquareValues == {f32(0), f32(1), f32(3), Big}
SquareBuffers ==
    UNION {[1..n -> SquareValues] : n \in {0, 1, 4}}
      \cup UNION {Thin(SquareValues, n) : n \in 0..MaxSquareLen}
      \cup {Counted(4), <<f32(2), f32(1), f32(1), f32(3)>>}
SquareResults == {Stale(n) : n \in 0..MaxSquareLen}
SquareSizes == Dimensions \cup {usize(3)}

\* --------------------------------------------------------- the state machine

VARIABLES
    builder,       \* Option<EnvelopeBuilder>: its working envelope; None once build() consumed it
    given,         \* the last argument passed to the builder's from / to / message_id, if any,
                   \* and the capability / capabilities calls made on it, in call order
    calls,         \* setter calls made so far, other than from/to
    built,         \* Option: the envelope the last build() checked, and what it returned
    envelope,      \* Option<Envelope>: the value the calling code holds
    origin,        \* where that value came from: "none", "build" or "new"
    serialized,    \* Option: the last serialize(): its source envelope and the text
    deserialized,  \* Option: the last deserialize(): its input text and the result
    hashed,        \* the last hash() of the held and of the deserialized envelope
    kernel,        \* Option: the kernel call made: its arguments and what it left
    pair,          \* Option: two built envelopes, their serialized forms and hashes
    threads,       \* Option: the threads running operations side by side, each with
                   \* the buffers or the envelope it owns and how far its call has come
    stream         \* Option: the example's StreamingProcessor and the threads using it

vars == <<builder, given, calls, built, envelope, origin, serialized, deserialized, hashed,
          kernel, pair, threads, stream>>

Init ==
    /\ builder = None
    /\ given = [from |-> None, to |-> None, message_id |-> None, invalid |-> FALSE,
               capability_calls |-> <<>>]
    /\ calls = 0
    /\ built = None
    /\ envelope = None
    /\ origin = "none"
    /\ serialized = None
    /\ deserialized = None
    /\ hashed = [envelope |-> None, deserialized |-> None]
    /\ kernel = None
    /\ pair = None
    /\ threads = None
    /\ stream = None

\* EnvelopeBuilder::new (Envelope::builder)
BuilderNew ==
    /\ builder = None /\ built = None /\ envelope = None /\ deserialized = None
    /\ \E random \in RandomSource, now \in Clock :
         builder' = Some(Envelope_new(random, now))
    /\ UNCHANGED <<given, calls, built, envelope, origin, serialized, deserialized, hashed, kernel, pair, threads, stream>>

\* Envelope::new / Envelope::default called by the calling code itself
EnvelopeNew ==
    /\ builder = None /\ built = None /\ envelope = None /\ deserialized = None
    /\ \E random \in RandomSource, now \in Clock :
         envelope' = Some(Envelope_new(random, now))
    /\ origin' = "new"
    /\ UNCHANGED <<builder, given, calls, built, serialized, deserialized, hashed, kernel, pair, threads, stream>>

\* A builder setter `fn f(mut self, ..) -> Self`: it replaces the working
\* envelope and returns the builder; nothing else is touched.
BuilderKeeps == UNCHANGED <<built, envelope, origin, serialized, deserialized, hashed, kernel, pair, threads, stream>>
Budgeted == calls < MaxSetterCalls /\ calls' = calls + 1

\* EnvelopeBuilder::from
EnvelopeBuilder_from ==
    /\ IsSome(builder)
    /\ \E from \in Identifiers :
         /\ builder' = Some(Envelope_set_from(Unwrap(builder), from))
         /\ given' = [given EXCEPT !.from = Some(from),
                                   !.invalid = @ \/ ~validate_non_empty(from, "from").ok]
    /\ UNCHANGED calls /\ BuilderKeeps

\* EnvelopeBuilder::to
EnvelopeBuilder_to ==
    /\ IsSome(builder)
    /\ \E to \in Identifiers :
         /\ builder' = Some(Envelope_set_to(Unwrap(builder), to))
         /\ given' = [given EXCEPT !.to = Some(to),
                                   !.invalid = @ \/ ~validate_non_empty(to, "to").ok]
    /\ UNCHANGED calls /\ BuilderKeeps

\* EnvelopeBuilder::operation
EnvelopeBuilder_operation ==
    /\ IsSome(builder) /\ Budgeted
    /\ \E operation \in OperationTypes :
         builder' = Some(Envelope_set_operation(Unwrap(builder), operation))
    /\ UNCHANGED given /\ BuilderKeeps

\* EnvelopeBuilder::message_id
SetMessageId(e, message_id) == [e EXCEPT !.message_id = message_id]
EnvelopeBuilder_message_id ==
    /\ IsSome(builder) /\ Budgeted
    /\ \E message_id \in MessageIds :
         /\ builder' = Some(SetMessageId(Unwrap(builder), message_id))
         /\ given' = [given EXCEPT !.message_id = Some(message_id),
                                   !.invalid = @ \/ ~validate_uuid(message_id)]
    /\ BuilderKeeps

\* EnvelopeBuilder::capability
EnvelopeBuilder_capability ==
    /\ IsSome(builder) /\ Budgeted
    /\ \E kv \in CapabilityArgs :
         /\ \E e \in Envelope_add_capability(Unwrap(builder), kv[1], kv[2]) :
               builder' = Some(e)
         /\ given' = [given EXCEPT !.capability_calls = Append(@, <<"capability", kv>>)]
    /\ BuilderKeeps

\* EnvelopeBuilder::capabilities
EnvelopeBuilder_capabilities ==
    /\ IsSome(builder) /\ Budgeted
    /\ \E capabilities \in CapabilityMaps :
         /\ builder' = Some(Envelope_set_capabilities(Unwrap(builder), capabilities))
         /\ given' = [given EXCEPT
                        !.capability_calls = Append(@, <<"capabilities", capabilities>>)]
    /\ BuilderKeeps

\* EnvelopeBuilder::schema_uri
EnvelopeBuilder_schema_uri ==
    /\ IsSome(builder) /\ Budgeted
    /\ \E schema_uri \in SchemaUris :
         builder' = Some(Envelope_set_schema_uri(Unwrap(builder), schema_uri))
    /\ UNCHANGED given /\ BuilderKeeps

\* EnvelopeBuilder::accept
EnvelopeBuilder_accept ==
    /\ IsSome(builder) /\ Budgeted
    /\ \E accept \in AcceptLists :
         builder' = Some(Envelope_set_accept(Unwrap(builder), accept))
    /\ UNCHANGED given /\ BuilderKeeps

\* EnvelopeBuilder::payload_hint
EnvelopeBuilder_payload_hint ==
    /\ IsSome(builder) /\ Budgeted
    /\ \E hint \in PayloadHints :
         builder' = Some(Envelope_set_payload_hint(Unwrap(builder), hint))
    /\ UNCHANGED given /\ BuilderKeeps

\* EnvelopeBuilder::payload_refs
EnvelopeBuilder_payload_refs ==
    /\ IsSome(builder) /\ Budgeted
    /\ \E refs \in PayloadRefsArgs :
         builder' = Some(Envelope_set_payload_refs(Unwrap(builder), refs))
    /\ UNCHANGED given /\ BuilderKeeps

\* EnvelopeBuilder::build: validate the working envelope; the builder is
\* consumed either way, and the envelope is returned only when it is valid.
BuildOutcome(e) == Try(Envelope_validate(e), Ok(e))
EnvelopeBuilder_build ==
    /\ IsSome(builder)
    /\ LET e == Unwrap(builder)
           outcome == BuildOutcome(e)
       IN  /\ built' = Some([checked |-> e, outcome |-> outcome])
           /\ IF outcome.ok
              THEN envelope' = Some(outcome.value) /\ origin' = "build"
              ELSE UNCHANGED <<envelope, origin>>
    /\ builder' = None
    /\ UNCHANGED <<given, calls, serialized, deserialized, hashed, kernel, pair, threads, stream>>

\* The public setters of Envelope, called on the value the calling code
\* holds (`let mut e = ...build()?; e.set_from(..)`).
HolderKeeps == UNCHANGED <<builder, given, built, origin, serialized, deserialized, hashed, kernel, pair, threads, stream>>

\* The calling code holds an envelope it has not serialized yet: it sets the
\* fields first and serializes last.
Holding == IsSome(envelope) /\ serialized = None

\* Envelope::set_from on the held envelope
Held_set_from ==
    /\ Holding
    /\ \E from \in Identifiers : envelope' = Some(Envelope_set_from(Unwrap(envelope), from))
    /\ UNCHANGED calls /\ HolderKeeps

\* Envelope::set_to on the held envelope
Held_set_to ==
    /\ Holding
    /\ \E to \in Identifiers : envelope' = Some(Envelope_set_to(Unwrap(envelope), to))
    /\ UNCHANGED calls /\ HolderKeeps

\* Envelope::set_operation on the held envelope
Held_set_operation ==
    /\ Holding /\ Budgeted
    /\ \E operation \in OperationTypes :
         envelope' = Some(Envelope_set_operation(Unwrap(envelope), operation))
    /\ HolderKeeps

\* Envelope::set_capabilities on the held envelope
Held_set_capabilities ==
    /\ Holding /\ Budgeted
    /\ \E capabilities \in CapabilityMaps :
         envelope' = Some(Envelope_set_capabilities(Unwrap(envelope), capabilities))
    /\ HolderKeeps

\* Envelope::add_capability on the held envelope
Held_add_capability ==
    /\ Holding /\ Budgeted
    /\ \E kv \in CapabilityArgs :
         \E e \in Envelope_add_capability(Unwrap(envelope), kv[1], kv[2]) :
            envelope' = Some(e)
    /\ HolderKeeps

\* Envelope::set_schema_uri on the held envelope
Held_set_schema_uri ==
    /\ Holding /\ Budgeted
    /\ \E schema_uri \in SchemaUris :
         envelope' = Some(Envelope_set_schema_uri(Unwrap(envelope), schema_uri))
    /\ HolderKeeps

\* Envelope::set_accept on the held envelope
Held_set_accept ==
    /\ Holding /\ Budgeted
    /\ \E accept \in AcceptLists :
         envelope' = Some(Envelope_set_accept(Unwrap(envelope), accept))
    /\ HolderKeeps

\* Envelope::set_payload_hint on the held envelope
Held_set_payload_hint ==
    /\ Holding /\ Budgeted
    /\ \E hint \in PayloadHints :
         envelope' = Some(Envelope_set_payload_hint(Unwrap(envelope), hint))
    /\ HolderKeeps

\* Envelope::set_payload_refs on the held envelope
Held_set_payload_refs ==
    /\ Holding /\ Budgeted
    /\ \E refs \in PayloadRefsArgs :
         envelope' = Some(Envelope_set_payload_refs(Unwrap(envelope), refs))
    /\ HolderKeeps

\* Envelope::serialize on the held envelope
Serialize ==
    /\ IsSome(envelope) /\ serialized = None
    /\ serialized' = Some([source |-> Unwrap(envelope),
                           result |-> Envelope_serialize(Unwrap(envelope))])
    /\ UNCHANGED <<builder, given, calls, built, envelope, origin, deserialized, hashed, kernel, pair, threads, stream>>

\* Envelope::deserialize on the text serialize produced
Deserialize ==
    /\ IsSome(serialized) /\ Unwrap(serialized).result.ok /\ deserialized = None
    /\ LET json == Unwrap(serialized).result.value
       IN  \E r \in Envelope_deserialize(json) :
              deserialized' = Some([text |-> json, result |-> r])
    /\ UNCHANGED <<builder, given, calls, built, envelope, origin, serialized, hashed, kernel, pair, threads, stream>>

\* Envelope::hash on the held envelope
Hash ==
    /\ IsSome(envelope) /\ hashed.envelope = None
    /\ hashed' = [hashed EXCEPT !.envelope =
                    Some([source |-> Unwrap(envelope), result |-> Envelope_hash(Unwrap(envelope))])]
    /\ UNCHANGED <<builder, given, calls, built, envelope, origin, serialized, deserialized, kernel, pair, threads, stream>>

\* Envelope::hash on the envelope deserialize returned
HashDeserialized ==
    /\ IsSome(deserialized) /\ Unwrap(deserialized).result.ok /\ hashed.deserialized = None
    /\ LET e == Unwrap(deserialized).result.value
       IN  hashed' = [hashed EXCEPT !.deserialized =
                        Some([source |-> e, result |-> Envelope_hash(e)])]
    /\ UNCHANGED <<builder, given, calls, built, envelope, origin, serialized, deserialized, kernel, pair, threads, stream>>

\* Texts a receiver is handed by the transport: variations of one object.
Received(from, op, rest) ==
    <<<<K_v, JStr(<<"1",".","0">>)>>, <<K_msg_id, JStr(UuidGiven)>>, <<K_ts, JStr(TimeA)>>,
      <<K_from, JStr(from)>>, <<K_to, JStr(<<"b">>)>>, <<K_op, JStr(op)>>>> \o rest
Drop(members, name) == SelectSeq(members, LAMBDA m : m[1] # name)
HintMember(members) == <<<<K_payload_hint, JObj(members)>>>>
WellFormedTexts ==
    {JObj(Received(<<"a">>, <<"d","a","t","a">>, <<>>)),
     JObj(Received(<<>>, <<"a","c","k">>, <<>>)),
     JObj(Received(<<"a">>, <<"d","a","t","a">>,
          HintMember(<<<<K_type, JStr(<<"v","e","c","t","o","r">>)>>,
                       <<K_encoding, JStr(<<"f","l","o","a","t","3","2">>)>>,
                       <<K_count, JNum(768)>>>>))),
     JObj(Received(<<"a">>, <<"d","a","t","a">>,
          <<<<K_capabilities, JNull>>, <<<<"x">>, JNum(1)>>>>)),
     JObj(Received(<<"a">>, <<"d","a","t","a">>,
          <<<<K_capabilities, JObj(<<<<<<"k">>, JStr(<<"v">>)>>, <<<<"k">>, JStr(<<>>)>>>>)>>>>))}
UnknownNames == {<<"b","o","g","u","s">>, <<"D","a","t","a">>, <<"V","e","c","t","o","r">>,
                 <<"F","l","o","a","t","3","2">>, <<"f","l","o","a","t","1","6">>, <<>>}
UnknownEnumTexts ==
    {JObj(Received(<<"a">>, n, <<>>)) : n \in UnknownNames}
      \cup {JObj(Received(<<"a">>, <<"d","a","t","a">>, HintMember(<<<<K_type, JStr(n)>>>>))) :
               n \in UnknownNames}
      \cup {JObj(Received(<<"a">>, <<"d","a","t","a">>,
                 HintMember(<<<<K_type, JStr(<<"t","e","x","t">>)>>, <<K_encoding, JStr(n)>>>>))) :
               n \in UnknownNames}
      \cup {JObj(Received(<<"a">>, <<"b","o","g","u","s">>,
                 HintMember(<<<<K_type, JStr(<<"b","o","g","u","s">>)>>>>)))}
RequiredNames == {K_v, K_msg_id, K_ts, K_from, K_to, K_op}
MalformedTexts ==
    {JObj(Drop(Received(<<"a">>, <<"d","a","t","a">>, <<>>), n)) : n \in RequiredNames}
      \cup {JObj(Drop(Received(<<"a">>, <<"b","o","g","u","s">>, <<>>), K_from)),
            JObj(<<>>),
            JArr(<<>>),
            JObj(Received(<<"a">>, <<"d","a","t","a">>,
                 HintMember(<<<<K_encoding, JStr(<<"f","l","o","a","t","3","2">>)>>>>))),
            JObj(Received(<<"a">>, <<"d","a","t","a">>, <<<<K_from, JStr(<<"a">>)>>>>)),
            JObj(Received(<<"a">>, <<"d","a","t","a">>, <<<<K_accept, JArr(<<JNum(1)>>)>>>>))}
ReceivedTexts == WellFormedTexts \cup UnknownEnumTexts \cup MalformedTexts

\* Envelope::deserialize on a text received from elsewhere, by a program
\* that has built nothing itself
DeserializeReceived ==
    /\ builder = None /\ built = None /\ envelope = None /\ deserialized = None
    /\ \E json \in ReceivedTexts :
         \E r \in Envelope_deserialize(json) :
            deserialized' = Some([text |-> json, result |-> r])
    /\ UNCHANGED <<builder, given, calls, built, envelope, origin, serialized, hashed, kernel, pair, threads, stream>>

\* The builder's operations
BuilderNext ==
    \/ BuilderNew
    \/ EnvelopeBuilder_from
    \/ EnvelopeBuilder_to
    \/ EnvelopeBuilder_operation
    \/ EnvelopeBuilder_message_id
    \/ EnvelopeBuilder_capability
    \/ EnvelopeBuilder_capabilities
    \/ EnvelopeBuilder_schema_uri
    \/ EnvelopeBuilder_accept
    \/ EnvelopeBuilder_payload_hint
    \/ EnvelopeBuilder_payload_refs
    \/ EnvelopeBuilder_build

\* A producer assembles an envelope, serializes and hashes it; a receiver
\* deserializes a text.
Next ==
    \/ BuilderNext
    \/ EnvelopeNew
    \/ Serialize
    \/ Deserialize
    \/ Hash
    \/ HashDeserialized
    \/ DeserializeReceived

Spec == Init /\ [][Next]_vars

\* A producer assembles an envelope and goes on calling the public setters
\* of the value it holds.
HolderNext ==
    \/ BuilderNext
    \/ EnvelopeNew
    \/ Held_set_from
    \/ Held_set_to
    \/ Held_set_operation
    \/ Held_set_capabilities
    \/ Held_add_capability
    \/ Held_set_schema_uri
    \/ Held_set_accept
    \/ Held_set_payload_hint
    \/ Held_set_payload_refs

SpecHolder == Init /\ [][HolderNext]_vars

\* A producer creates an envelope with Envelope::new, sets its fields with
\* the public setters and serializes it, never calling validate().
UncheckedNext ==
    \/ EnvelopeNew
    \/ Held_set_from
    \/ Held_set_to
    \/ Held_set_operation
    \/ Held_set_capabilities
    \/ Held_add_capability
    \/ Held_set_schema_uri
    \/ Held_set_accept
    \/ Held_set_payload_hint
    \/ Held_set_payload_refs
    \/ Serialize

SpecUnchecked == Init /\ [][UncheckedNext]_vars

\* ------------------------------------------------------- the kernel calls
\* Matrix holds no state: a call works on the buffers its caller owns. The
\* calling code makes one call; `kernel` records its arguments, the build it
\* ran in, the `&mut` buffer before and after, and what came back.
EnvelopeIdle ==
    UNCHANGED <<builder, given, calls, built, envelope, origin, serialized, deserialized,
                hashed, pair, threads, stream>>

NoCallYet ==
    kernel = None /\ pair = None /\ builder = None /\ envelope = None /\ deserialized = None

Call(op, a, b, scalar, dims, overflow_checks, before, done) ==
    /\ kernel' = Some([op |-> op, a |-> a, b |-> b, scalar |-> scalar, dims |-> dims,
                       overflow_checks |-> overflow_checks, before |-> before,
                       after |-> done.buffer, returned |-> done.returned, back |-> None])
    /\ EnvelopeIdle

Kernel_vector_add ==
    /\ NoCallYet
    /\ \E a \in Buffers, b \in Buffers, result \in ResultBuffers :
           Call("vector_add", a, b, None, <<>>, FALSE, result, Matrix_vector_add(a, b, result))

Kernel_vector_subtract ==
    /\ NoCallYet
    /\ \E a \in Buffers, b \in Buffers, result \in ResultBuffers :
           Call("vector_subtract", a, b, None, <<>>, FALSE, result,
                Matrix_vector_subtract(a, b, result))

Kernel_vector_multiply ==
    /\ NoCallYet
    /\ \E a \in Buffers, b \in Buffers, result \in ResultBuffers :
           Call("vector_multiply", a, b, None, <<>>, FALSE, result,
                Matrix_vector_multiply(a, b, result))

Kernel_vector_scale ==
    /\ NoCallYet
    /\ \E vector \in Buffers, scalar \in Scalars, result \in ResultBuffers :
           Call("vector_scale", vector, <<>>, Some(scalar), <<>>, FALSE, result,
                Matrix_vector_scale(vector, scalar, result))

Kernel_add ==
    /\ NoCallYet
    /\ \E a \in Buffers, b \in Buffers, result \in ResultBuffers,
          rows \in Dimensions, cols \in Dimensions, overflow_checks \in BOOLEAN :
           Call("add", a, b, None, <<rows, cols>>, overflow_checks, result,
                Matrix_add(a, b, result, rows, cols, overflow_checks))

Kernel_multiply ==
    /\ NoCallYet
    /\ \E a \in Buffers, b \in Buffers, result \in ResultBuffers,
          m \in Dimensions, n \in Dimensions, p \in Dimensions, overflow_checks \in BOOLEAN :
           Call("multiply", a, b, None, <<m, n, p>>, overflow_checks, result,
                Matrix_multiply(a, b, result, m, n, p, overflow_checks))

Kernel_multiply_large ==
    /\ NoCallYet
    /\ \E overflow_checks \in BOOLEAN :
           Call("multiply", LargeLeft, LargeRight, None,
                <<usize(LargeSide), usize(LargeSide), usize(LargeSide)>>,
                overflow_checks, LargeResult,
                Matrix_multiply(LargeLeft, LargeRight, LargeResult, usize(LargeSide),
                                usize(LargeSide), usize(LargeSide), overflow_checks))

Kernel_transpose ==
    /\ NoCallYet
    /\ \E input \in TransposeInputs, output \in TransposeOutputs,
          rows \in TransposeDimensions, cols \in TransposeDimensions,
          overflow_checks \in BOOLEAN :
           Call("transpose", input, <<>>, None, <<rows, cols>>, overflow_checks, output,
                Matrix_transpose(input, output, rows, cols, overflow_checks))

Kernel_normalize ==
    /\ NoCallYet
    /\ \E matrix \in NormalizeInputs,
          rows \in Dimensions, cols \in Dimensions, overflow_checks \in BOOLEAN :
           Call("normalize", <<>>, <<>>, None, <<rows, cols>>, overflow_checks, matrix,
                Matrix_normalize(matrix, rows, cols, overflow_checks))

Kernel_inverse ==
    /\ NoCallYet
    /\ \E matrix \in SquareBuffers, result \in SquareResults,
          size \in SquareSizes, overflow_checks \in BOOLEAN :
           Call("inverse", matrix, <<>>, None, <<size>>, overflow_checks, result,
                Matrix_inverse(matrix, result, size, overflow_checks))

\* The operations without an output buffer leave `before` and `after` empty.
Kernel_determinant ==
    /\ NoCallYet
    /\ \E matrix \in SquareBuffers, size \in SquareSizes, overflow_checks \in BOOLEAN :
           Call("determinant", matrix, <<>>, None, <<size>>, overflow_checks, <<>>,
                Returns(Matrix_determinant(matrix, size, overflow_checks), <<>>))

Kernel_dot_product ==
    /\ NoCallYet
    /\ \E a \in Vectors, b \in Vectors :
           Call("dot_product", a, b, None, <<>>, FALSE, <<>>,
                Returns(Matrix_dot_product(a, b), <<>>))

Kernel_cosine_similarity ==
    /\ NoCallYet
    /\ \E a \in Vectors, b \in Vectors :
           Call("cosine_similarity", a, b, None, <<>>, FALSE, <<>>,
                Returns(Matrix_cosine_similarity(a, b), <<>>))

\* A second transpose, of what a successful transpose wrote, with the
\* dimensions swapped and into a buffer as long as the first input.
Kernel_transpose_back ==
    /\ IsSome(kernel) /\ Unwrap(kernel).op = "transpose"
    /\ Unwrap(kernel).returned.ok /\ Unwrap(kernel).back = None
    /\ LET c == Unwrap(kernel)
           output == Stale(Len(c.a))
           done == Matrix_transpose(c.after, output, c.dims[2], c.dims[1], c.overflow_checks)
       IN  kernel' = Some([c EXCEPT !.back = Some([before |-> output, after |-> done.buffer,
                                                   returned |-> done.returned])])
    /\ EnvelopeIdle

\* The check of the examples: multiply(original, inverse) into a fresh buffer,
\* after an inverse that returned Ok.
Kernel_inverse_multiply_back ==
    /\ IsSome(kernel) /\ Unwrap(kernel).op = "inverse"
    /\ Unwrap(kernel).returned.ok /\ Unwrap(kernel).back = None
    /\ LET c == Unwrap(kernel)
           output == Stale(Len(c.a))
           done == Matrix_multiply(c.a, c.after, output, c.dims[1], c.dims[1], c.dims[1],
                                   c.overflow_checks)
       IN  kernel' = Some([c EXCEPT !.back = Some([before |-> output, after |-> done.buffer,
                                                   returned |-> done.returned])])
    /\ EnvelopeIdle

KernelNext ==
    \/ Kernel_vector_add
    \/ Kernel_vector_subtract
    \/ Kernel_vector_multiply
    \/ Kernel_vector_scale
    \/ Kernel_add
    \/ Kernel_multiply
    \/ Kernel_transpose
    \/ Kernel_normalize
    \/ Kernel_inverse

SpecKernel == Init /\ [][KernelNext]_vars

\* One call of an element-wise vector operation.
ElementwiseNext ==
    \/ Kernel_vector_add
    \/ Kernel_vector_subtract
    \/ Kernel_vector_multiply
    \/ Kernel_vector_scale

SpecElementwise == Init /\ [][ElementwiseNext]_vars

\* One call of dot_product or cosine_similarity.
VectorNext ==
    \/ Kernel_dot_product
    \/ Kernel_cosine_similarity

SpecVector == Init /\ [][VectorNext]_vars

\* One call of determinant or inverse.
SquareNext ==
    \/ Kernel_determinant
    \/ Kernel_inverse

SpecSquare == Init /\ [][SquareNext]_vars

\* An inverse, and the product of its input and its output.
InverseNext ==
    \/ Kernel_inverse
    \/ Kernel_inverse_multiply_back

SpecInverse == Init /\ [][InverseNext]_vars

\* One call of any of the twelve kernel operations.
EveryKernelNext ==
    \/ KernelNext
    \/ Kernel_determinant
    \/ Kernel_dot_product
    \/ Kernel_cosine_similarity

SpecEveryKernel == Init /\ [][EveryKernelNext]_vars

\* One call of normalize.
SpecNormalize == Init /\ [][Kernel_normalize]_vars

\* One call of multiply, on small matrices or on large ones.
MultiplyNext ==
    \/ Kernel_multiply
    \/ Kernel_multiply_large

SpecMultiply == Init /\ [][MultiplyNext]_vars

\* A transpose, and the transpose of its result.
TransposeNext ==
    \/ Kernel_transpose
    \/ Kernel_transpose_back

SpecTranspose == Init /\ [][TransposeNext]_vars

\* ------------------------------------------------- a builder chain at once
\* Envelope::builder().from(..).to(..).message_id(..) .. .build() written as
\* one expression, on strings with and without surrounding whitespace. None
\* stands for a setter that is not called.
Paddings == {<<>>, <<" ">>, <<"\t", " ">>, <<" ", "a", " ">>, <<"a">>}
ChainMessageIds == {None, Some(<<" ">>), Some(UuidGiven), Some(UuidPadded)}
ChainCapabilities ==
    {None} \cup {Some(<<<<k, v>>>>) : k \in Paddings \ {<<>>}, v \in Paddings \ {<<>>}}
ChainSchemaUris == {None} \cup {Some(s) : s \in Paddings \ {<<>>}}
ChainAccepts == {None} \cup {Some(<<<<"x">>, s>>) : s \in Paddings \ {<<>>}}

Chain(from, to, message_id, capabilities, schema_uri, accept) ==
    LET created == Envelope_set_to(Envelope_set_from(Envelope_new(RandomA, TimeA), from), to)
        identified == IF IsSome(message_id)
                      THEN [created EXCEPT !.message_id = Unwrap(message_id)] ELSE created
        capable == IF IsSome(capabilities)
                   THEN Envelope_set_capabilities(identified, Unwrap(capabilities))
                   ELSE identified
        described == IF IsSome(schema_uri)
                     THEN Envelope_set_schema_uri(capable, Unwrap(schema_uri)) ELSE capable
    IN  IF IsSome(accept) THEN Envelope_set_accept(described, Unwrap(accept)) ELSE described

Build_chain ==
    /\ NoCallYet /\ built = None
    /\ \E from \in Paddings, to \in Paddings, message_id \in ChainMessageIds,
          capabilities \in ChainCapabilities, schema_uri \in ChainSchemaUris,
          accept \in ChainAccepts :
           LET e == Chain(from, to, message_id, capabilities, schema_uri, accept)
               outcome == BuildOutcome(e)
           IN  /\ built' = Some([checked |-> e, outcome |-> outcome])
               /\ IF outcome.ok
                  THEN envelope' = Some(outcome.value) /\ origin' = "build"
                  ELSE UNCHANGED <<envelope, origin>>
    /\ UNCHANGED <<builder, given, calls, serialized, deserialized, hashed, kernel, pair, threads, stream>>

SpecChain == Init /\ [][Build_chain]_vars

\* ------------------------------------------------- operations side by side
\* Threads that share one `Matrix` (a struct without fields, used through
\* `&self`) and nothing else: each passes buffers, or works on an envelope,
\* that it alone owns. A kernel call advances one statement at a time, an
\* envelope method is one step; the scheduler picks who moves.
Threads == 1..ThreadCount

JobVectors == {<<f32(1), f32(3)>>, <<f32(3), f32(4097)>>, <<f32(3)>>}

\* What a thread is asked to run.
VectorAddJobs ==
    {[kind |-> "vector_add", a |-> a, b |-> b, before |-> Stale(2), rows |-> 0, cols |-> 0,
      calls |-> <<>>] : a \in JobVectors, b \in JobVectors}
TransposeJobs ==
    {[kind |-> "transpose", a |-> Counted(n), b |-> <<>>, before |-> Stale(4),
      rows |-> 2, cols |-> 2, calls |-> <<>>] : n \in {2, 4}}
EnvelopeJobs ==
    {[kind |-> "envelope", a |-> <<>>, b |-> <<>>, before |-> <<>>, rows |-> 0, cols |-> 0,
      calls |-> <<<<"new", random>>, <<"set_from", from>>, <<"set_to", <<"b">>>>,
                  <<"serialize">>, <<"hash">>>>] :
        random \in RandomSource, from \in {<<>>, <<"a">>}}
ThreadJobs == VectorAddJobs \cup TransposeJobs \cup EnvelopeJobs

\* A thread that has just made its call.
Started(job) ==
    [job |-> job, pc |-> "called", at |-> 0, buffer |-> job.before, envelope |-> None,
     returned |-> <<>>]

\* Were the output written through a scratch buffer shared by the calls of
\* one size: the first thread's.
OutputOf_shared(ts, t) ==
    IF Len(ts[1].buffer) = Len(ts[t].buffer) THEN ts[1].buffer ELSE ts[t].buffer

\* The `result: &mut [f32]` a call of thread t writes through: the buffer of
\* its own caller.
OutputOf(ts, t) == ts[t].buffer

\* The check on entry of vector_add and of transpose
JobMismatch(job) ==
    IF job.kind = "vector_add"
    THEN Len(job.a) # Len(job.b) \/ Len(job.a) # Len(job.before)
    ELSE Len(job.a) # job.rows * job.cols \/ Len(job.before) # job.cols * job.rows
JobError(job) ==
    IF job.kind = "vector_add"
    THEN UmicpError_matrix("Vector length mismatch: a({}), b({}), result({})")
    ELSE UmicpError_matrix("Invalid transpose dimensions: input({}) != {}x{}, output({}) != {}x{}")

\* The element the loop writes in its iteration number `at` (from 0), and
\* the value it writes there.
StoreIndex(job, at) ==
    IF job.kind = "vector_add" THEN at + 1
    ELSE (at % job.cols) * job.rows + (at \div job.cols) + 1
StoreValue(job, at) ==
    IF job.kind = "vector_add" THEN f32_add(job.a[at + 1], job.b[at + 1])
    ELSE job.a[at + 1]

\* The threads start, each on a job of its own.
Spawn ==
    /\ NoCallYet /\ threads = None /\ stream = None
    /\ \E jobs \in [Threads -> ThreadJobs] :
           threads' = Some([t \in Threads |-> Started(jobs[t])])
    /\ UNCHANGED <<builder, given, calls, built, envelope, origin, serialized, deserialized,
                   hashed, kernel, pair, stream>>

ThreadKeeps ==
    UNCHANGED <<builder, given, calls, built, envelope, origin, serialized, deserialized,
                hashed, kernel, pair, stream>>

\* The length check of a kernel call: an error return, or on to the loop
Thread_enter(t) ==
    /\ IsSome(threads)
    /\ Unwrap(threads)[t].job.kind # "envelope" /\ Unwrap(threads)[t].pc = "called"
    /\ LET th == Unwrap(threads)[t]
       IN  threads' = Some([Unwrap(threads) EXCEPT ![t] =
               IF JobMismatch(th.job)
               THEN [th EXCEPT !.pc = "returned", !.returned = <<JobError(th.job)>>]
               ELSE [th EXCEPT !.pc = "loop"]])
    /\ ThreadKeeps

\* One iteration of the loop: one element stored
Thread_store(t) ==
    /\ IsSome(threads)
    /\ Unwrap(threads)[t].pc = "loop" /\ Unwrap(threads)[t].at < Len(Unwrap(threads)[t].job.a)
    /\ LET th == Unwrap(threads)[t]
           output == OutputOf(Unwrap(threads), t)
       IN  threads' = Some([Unwrap(threads) EXCEPT ![t] =
               [th EXCEPT !.at = th.at + 1,
                          !.buffer = [output EXCEPT ![StoreIndex(th.job, th.at)] =
                                          StoreValue(th.job, th.at)]]])
    /\ ThreadKeeps

\* The loop is over: Ok(MatrixResult { .. })
Thread_return(t) ==
    /\ IsSome(threads)
    /\ Unwrap(threads)[t].pc = "loop" /\ Unwrap(threads)[t].at = Len(Unwrap(threads)[t].job.a)
    /\ threads' = Some([Unwrap(threads) EXCEPT ![t].pc = "returned",
                            ![t].returned = <<Ok(MatrixResult(None, None, None))>>])
    /\ ThreadKeeps

\* What one envelope method call makes of the thread's envelope and of the
\* values returned to it so far.
AfterCall(call, e, returned) ==
    CASE call[1] = "new" -> [envelope |-> Some(Envelope_new(call[2], TimeA)), returned |-> returned]
      [] call[1] = "set_from" ->
             [envelope |-> Some(Envelope_set_from(Unwrap(e), call[2])), returned |-> returned]
      [] call[1] = "set_to" ->
             [envelope |-> Some(Envelope_set_to(Unwrap(e), call[2])), returned |-> returned]
      [] call[1] = "serialize" ->
             [envelope |-> e, returned |-> Append(returned, Envelope_serialize(Unwrap(e)))]
      [] call[1] = "hash" ->
             [envelope |-> e, returned |-> Append(returned, Envelope_hash(Unwrap(e)))]

\* The next method call of a thread working on its envelope
Thread_envelope_call(t) ==
    /\ IsSome(threads)
    /\ Unwrap(threads)[t].job.kind = "envelope" /\ Unwrap(threads)[t].pc = "called"
    /\ LET th == Unwrap(threads)[t]
           done == AfterCall(th.job.calls[th.at + 1], th.envelope, th.returned)
       IN  threads' = Some([Unwrap(threads) EXCEPT ![t] =
               [th EXCEPT !.at = th.at + 1, !.envelope = done.envelope,
                          !.returned = done.returned,
                          !.pc = IF th.at + 1 = Len(th.job.calls) THEN "returned" ELSE "called"]])
    /\ ThreadKeeps

ThreadsNext ==
    \/ Spawn
    \/ \E t \in Threads : Thread_enter(t)
    \/ \E t \in Threads : Thread_store(t)
    \/ \E t \in Threads : Thread_return(t)
    \/ \E t \in Threads : Thread_envelope_call(t)

SpecThreads == Init /\ [][ThreadsNext]_vars

\* ------------------------------------------- the example's StreamingProcessor
\* examples/real_time_processing.rs. An envelope is known by the number of
\* the add_envelope call it was passed to; `handed` counts for each how
\* often process_envelope received it. The buffer's Mutex makes each locked
\* section one step; the sections of different calls interleave freely.

\* The calls one thread makes, in order.
StreamPrograms ==
    UNION {[1..n -> {"add", "flush"}] : n \in 1..MaxStreamCalls}
\* How many envelopes the creating thread has added before the others start.
Backlogs == {0, batch_size - 2, batch_size - 1}

\* StreamingProcessor::new
StreamingProcessor_new ==
    [buffer |-> <<>>, processed_count |-> 0, handed |-> <<>>, settled |-> FALSE]

\* The creating thread adds a backlog of envelopes, fewer than a batch, one
\* after the other, and then shares the processor with the threads.
Stream_start ==
    /\ NoCallYet /\ threads = None /\ stream = None
    /\ \E backlog \in Backlogs, programs \in [Threads -> StreamPrograms] :
           stream' = Some([processor |-> [StreamingProcessor_new EXCEPT
                                             !.buffer = [i \in 1..backlog |-> i],
                                             !.handed = [i \in 1..backlog |-> 0]],
                           workers |-> [t \in Threads |->
                                           [todo |-> programs[t], pc |-> "idle",
                                            in_add |-> FALSE, final |-> FALSE,
                                            batch |-> <<>>]]])
    /\ UNCHANGED <<builder, given, calls, built, envelope, origin, serialized, deserialized,
                   hashed, kernel, pair, threads>>

StreamKeeps ==
    UNCHANGED <<builder, given, calls, built, envelope, origin, serialized, deserialized,
                hashed, kernel, pair, threads>>

\* No add_envelope call is running or still to come.
AddsOver(workers) ==
    \A u \in Threads :
        /\ ~workers[u].in_add
        /\ \A i \in DOMAIN workers[u].todo : workers[u].todo[i] # "add"

\* add_envelope up to the release of the buffer: the push, and the test
\* for a full batch that sends the call on into flush_batch.
add_envelope(t) ==
    /\ IsSome(stream)
    /\ LET s == Unwrap(stream)
           w == s.workers[t]
           id == Len(s.processor.handed) + 1
           buffer == Append(s.processor.buffer, id)
           full == Len(buffer) >= batch_size
       IN  /\ w.pc = "idle" /\ w.todo # <<>> /\ Head(w.todo) = "add"
           /\ stream' = Some([s EXCEPT
                  !.processor.buffer = buffer,
                  !.processor.handed = Append(s.processor.handed, 0),
                  !.workers[t] = [w EXCEPT !.todo = Tail(w.todo),
                                           !.pc = IF full THEN "flush" ELSE "idle",
                                           !.in_add = full]])
    /\ StreamKeeps

\* flush_batch up to the release of the buffer, which an identical copy of
\* the batch is taken from instead of being drained.
flush_batch_copying(t) ==
    /\ IsSome(stream)
    /\ LET s == Unwrap(stream)
           w == s.workers[t]
           called == w.pc = "idle" /\ w.todo # <<>> /\ Head(w.todo) = "flush"
           todo == IF called THEN Tail(w.todo) ELSE w.todo
           final == called /\ AddsOver([s.workers EXCEPT ![t].todo = todo])
       IN  /\ called \/ w.pc = "flush"
           /\ IF s.processor.buffer = <<>>
              THEN stream' = Some([s EXCEPT
                       !.processor.settled = @ \/ final,
                       !.workers[t] = [w EXCEPT !.todo = todo, !.pc = "idle",
                                                !.in_add = FALSE]])
              ELSE stream' = Some([s EXCEPT
                       !.workers[t] = [w EXCEPT !.todo = todo, !.pc = "process",
                                                !.final = final,
                                                !.batch = s.processor.buffer]])
    /\ StreamKeeps

\* flush_batch up to the release of the buffer: the return on an empty
\* buffer, or the drain of the whole buffer into the call's own batch.
flush_batch(t) ==
    /\ IsSome(stream)
    /\ LET s == Unwrap(stream)
           w == s.workers[t]
           called == w.pc = "idle" /\ w.todo # <<>> /\ Head(w.todo) = "flush"
           todo == IF called THEN Tail(w.todo) ELSE w.todo
           final == called /\ AddsOver([s.workers EXCEPT ![t].todo = todo])
       IN  /\ called \/ w.pc = "flush"
           /\ IF s.processor.buffer = <<>>
              THEN stream' = Some([s EXCEPT
                       !.processor.settled = @ \/ final,
                       !.workers[t] = [w EXCEPT !.todo = todo, !.pc = "idle",
                                                !.in_add = FALSE]])
              ELSE stream' = Some([s EXCEPT
                       !.processor.buffer = <<>>,
                       !.workers[t] = [w EXCEPT !.todo = todo, !.pc = "process",
                                                !.final = final,
                                                !.batch = s.processor.buffer]])
    /\ StreamKeeps

\* One turn of flush_batch's loop: the next envelope of the batch goes to
\* process_envelope, which reads it and touches nothing shared.
process_envelope(t) ==
    /\ IsSome(stream)
    /\ LET s == Unwrap(stream)
           w == s.workers[t]
       IN  /\ w.pc = "process"
           /\ stream' = Some([s EXCEPT
                  !.processor.handed[Head(w.batch)] = @ + 1,
                  !.workers[t] = [w EXCEPT !.batch = Tail(w.batch),
                                           !.pc = IF Tail(w.batch) = <<>>
                                                  THEN "count" ELSE "process"]])
    /\ StreamKeeps

\* The end of flush_batch: the batch counter, and the return.
flush_batch_count(t) ==
    /\ IsSome(stream)
    /\ LET s == Unwrap(stream)
           w == s.workers[t]
       IN  /\ w.pc = "count"
           /\ stream' = Some([s EXCEPT
                  !.processor.processed_count = @ + 1,
                  !.processor.settled = @ \/ w.final,
                  !.workers[t] = [w EXCEPT !.pc = "idle", !.in_add = FALSE,
                                           !.final = FALSE]])
    /\ StreamKeeps

StreamNext ==
    \/ Stream_start
    \/ \E t \in Threads : add_envelope(t)
    \/ \E t \in Threads : flush_batch(t)
    \/ \E t \in Threads : process_envelope(t)
    \/ \E t \in Threads : flush_batch_count(t)

SpecStream == Init /\ [][StreamNext]_vars

\* ------------------------------------------------- two envelopes compared
\* The envelopes one more builder call, or another moment of creation, makes
\* of e.
PairIdentifiers == {<<"a">>, <<"b">>}
OneCallFrom(e) ==
    {Envelope_set_from(e, x) : x \in PairIdentifiers}
      \cup {Envelope_set_to(e, x) : x \in PairIdentifiers}
      \cup {Envelope_set_operation(e, x) : x \in OperationTypes}
      \cup {SetMessageId(e, x) : x \in MessageIds}
      \cup {[e EXCEPT !.message_id = Envelope_new(random, now).message_id,
                      !.timestamp = Envelope_new(random, now).timestamp] :
               random \in RandomSource, now \in {TimeA, TimeB}}
      \cup UNION {Envelope_add_capability(e, kv[1], kv[2]) : kv \in CapabilityArgs}
      \cup {Envelope_set_capabilities(e, x) : x \in CapabilityMaps}
      \cup {Envelope_set_schema_uri(e, x) : x \in SchemaUris}
      \cup {Envelope_set_accept(e, x) : x \in AcceptLists}
      \cup {Envelope_set_payload_hint(e, x) : x \in PayloadHints}
      \cup {Envelope_set_payload_refs(e, x) : x \in PayloadRefsArgs}

\* What build() returns for the working envelopes in `working`.
Buildable(working) == {e \in working : BuildOutcome(e).ok}

\* The envelopes at most n such steps away from e, each step buildable.
RECURSIVE CallsFrom(_, _)
CallsFrom(e, n) ==
    IF n = 0 THEN {e}
    ELSE LET nearer == CallsFrom(e, n - 1)
         IN  nearer \cup UNION {Buildable(OneCallFrom(x)) : x \in nearer}

PairFirsts ==
    LET plain == Envelope_set_to(Envelope_set_from(Envelope_new(RandomA, TimeA), <<"a">>), <<"a">>)
        capable == Envelope_set_capabilities(plain, <<<<<<"k">>, <<"v">>>>, <<<<"p">>, <<"w">>>>>>)
        hinted == Envelope_set_payload_hint(
                      capable, PayloadHint("Vector", Some(3072), Some("Float32"), Some(768)))
    IN  {plain, capable,
         Envelope_set_payload_refs(
             Envelope_set_accept(Envelope_set_schema_uri(hinted, <<"s">>), <<<<"x">>>>),
             <<<<<<<<"k">>, <<"v">>>>>>>>)}

InitPair ==
    /\ builder = None
    /\ given = [from |-> None, to |-> None, message_id |-> None, invalid |-> FALSE,
               capability_calls |-> <<>>]
    /\ calls = 0
    /\ built = None
    /\ envelope = None
    /\ origin = "none"
    /\ serialized = None
    /\ deserialized = None
    /\ hashed = [envelope |-> None, deserialized |-> None]
    /\ kernel = None
    /\ threads = None
    /\ stream = None
    /\ \E first \in PairFirsts :
         \E second \in CallsFrom(first, MaxDiffCalls) :
            pair = Some([first |-> first, second |-> second,
                         serialized |-> None, hashed |-> None])

PairKeeps ==
    UNCHANGED <<builder, given, calls, built, envelope, origin, serialized, deserialized,
                hashed, kernel, threads, stream>>

\* Envelope::serialize on both
PairSerialize ==
    /\ IsSome(pair) /\ Unwrap(pair).serialized = None
    /\ pair' = Some([Unwrap(pair) EXCEPT !.serialized =
                        Some(<<Envelope_serialize(Unwrap(pair).first),
                               Envelope_serialize(Unwrap(pair).second)>>)])
    /\ PairKeeps

\* Envelope::hash on both
PairHash ==
    /\ IsSome(pair) /\ Unwrap(pair).hashed = None
    /\ pair' = Some([Unwrap(pair) EXCEPT !.hashed =
                        Some(<<Envelope_hash(Unwrap(pair).first),
                               Envelope_hash(Unwrap(pair).second)>>)])
    /\ PairKeeps

PairNext == PairSerialize \/ PairHash

SpecPair == InitPair /\ [][PairNext]_vars

\* ------------------------------------------------------------------ claims

Blank(s) == \A i \in DOMAIN s : s[i] \in Whitespace
BuiltOk == IsSome(built) /\ Unwrap(built).outcome.ok
BuildFailedWith(kind) ==
    /\ IsSome(built) /\ ~Unwrap(built).outcome.ok /\ Unwrap(built).outcome.kind = kind
    /\ envelope = None

\* C1: every Envelope the calling code can hold -- returned by build(), by
\* Envelope::new()/default() or by Envelope::deserialize() -- passes
\* Envelope::validate().
C1_HeldEnvelopesAreValid ==
    /\ IsSome(envelope) => Envelope_validate(Unwrap(envelope)).ok
    /\ (IsSome(deserialized) /\ Unwrap(deserialized).result.ok)
          => Envelope_validate(Unwrap(deserialized).result.value).ok

\* The optional fields hold no empty (resp. no blank) string.
OptionalStrings(e) ==
    (IF IsSome(e.capabilities)
     THEN Keys(Unwrap(e.capabilities)) \cup {kv[2] : kv \in Entries(Unwrap(e.capabilities))}
     ELSE {})
      \cup (IF IsSome(e.schema_uri) THEN {Unwrap(e.schema_uri)} ELSE {})
      \cup (IF IsSome(e.accept) THEN Range(Unwrap(e.accept)) ELSE {})

OptionEq(o1, o2, Eq(_, _)) ==
    /\ IsSome(o1) = IsSome(o2)
    /\ IsSome(o1) => Eq(Unwrap(o1), Unwrap(o2))
MapsEq(v1, v2) ==
    /\ Len(v1) = Len(v2)
    /\ \A i \in DOMAIN v1 : HashMap_eq(v1[i], v2[i])
EnvelopeEq(e1, e2) ==
    /\ e1.version = e2.version
    /\ e1.message_id = e2.message_id
    /\ e1.timestamp = e2.timestamp
    /\ e1.from = e2.from
    /\ e1.to = e2.to
    /\ e1.operation = e2.operation
    /\ OptionEq(e1.capabilities, e2.capabilities, HashMap_eq)
    /\ e1.schema_uri = e2.schema_uri
    /\ e1.accept = e2.accept
    /\ e1.payload_hint = e2.payload_hint
    /\ OptionEq(e1.payload_refs, e2.payload_refs, MapsEq)

\* The held envelope came from build(), was serialized, and the text was
\* deserialized.
RoundTripDone ==
    /\ origin = "build" /\ IsSome(envelope)
    /\ IsSome(serialized) /\ Unwrap(serialized).source = Unwrap(envelope)
    /\ Unwrap(serialized).result.ok
    /\ IsSome(deserialized)
    /\ Unwrap(deserialized).text = Unwrap(serialized).result.value

\* C3: for every successfully built envelope e, deserialize(serialize(e))
\* succeeds and yields an envelope equal to e in version, messageId,
\* timestamp, from, to, operation, capabilities, schemaUri, accept,
\* payloadHint and payloadRefs.
C3_RoundTrip ==
    (origin = "build" /\ IsSome(serialized))
        => /\ Unwrap(serialized).result.ok
           /\ RoundTripDone
                => /\ Unwrap(deserialized).result.ok
                   /\ EnvelopeEq(Unwrap(deserialized).result.value, Unwrap(envelope))

\* A built envelope carrying a payload hint with size, encoding and count
\* and a capability went through serialize and deserialize.
C3_Witness ==
    /\ RoundTripDone
    /\ Unwrap(envelope).payload_hint = Some(PayloadHint("Vector", Some(3072), Some("Float32"), Some(768)))
    /\ IsSome(Unwrap(envelope).capabilities)
    /\ Unwrap(deserialized).result.ok

\* Is the product of the declared dimensions x and y the length n?
ProductIs(x, y, n) ==
    IF x = usize(0) \/ y = usize(0) THEN n = 0
    ELSE x[1] = 0 /\ y[1] = 0 /\ x[2] * y[2] = n

\* Some buffer of the call does not have the length its declared dimensions
\* (or, for the vector operations, the other buffers) ask for.
LengthMismatch(c) ==
    CASE c.op \in {"vector_add", "vector_subtract", "vector_multiply"} ->
             Len(c.a) # Len(c.b) \/ Len(c.a) # Len(c.before)
      [] c.op = "vector_scale" -> Len(c.a) # Len(c.before)
      [] c.op = "add" ->
             \/ ~ProductIs(c.dims[1], c.dims[2], Len(c.a))
             \/ ~ProductIs(c.dims[1], c.dims[2], Len(c.b))
             \/ ~ProductIs(c.dims[1], c.dims[2], Len(c.before))
      [] c.op = "multiply" ->
             \/ ~ProductIs(c.dims[1], c.dims[2], Len(c.a))
             \/ ~ProductIs(c.dims[2], c.dims[3], Len(c.b))
             \/ ~ProductIs(c.dims[1], c.dims[3], Len(c.before))
      [] c.op = "transpose" ->
             \/ ~ProductIs(c.dims[1], c.dims[2], Len(c.a))
             \/ ~ProductIs(c.dims[2], c.dims[1], Len(c.before))
      [] c.op = "inverse" ->
             \/ ~ProductIs(c.dims[1], c.dims[1], Len(c.a))
             \/ ~ProductIs(c.dims[1], c.dims[1], Len(c.before))
      [] c.op = "normalize" -> ~ProductIs(c.dims[1], c.dims[2], Len(c.before))

\* C4: for every kernel operation that takes an output buffer (vector_add,
\* vector_subtract, vector_multiply, vector_scale, add, multiply, transpose,
\* inverse, and normalize's in-place buffer), when any buffer length does not
\* match the declared dimensions the call returns a Matrix error (never a
\* MatrixResult) and every element of the output buffer is as before the call.
C4_MismatchLeavesOutput ==
    (IsSome(kernel) /\ LengthMismatch(Unwrap(kernel)))
        => /\ ~Unwrap(kernel).returned.ok
           /\ Unwrap(kernel).returned.kind = "Matrix"
           /\ Unwrap(kernel).after = Unwrap(kernel).before

\* C5: for every successfully built envelope e, the envelope
\* e2 = deserialize(serialize(e)) has hash(e2) = hash(e).
C5_SameContentSameHash ==
    (/\ RoundTripDone /\ Unwrap(deserialized).result.ok
     /\ IsSome(hashed.envelope) /\ hashed.envelope[1].source = Unwrap(envelope)
     /\ IsSome(hashed.deserialized)
     /\ hashed.deserialized[1].source = Unwrap(deserialized).result.value)
        => hashed.deserialized[1].result = hashed.envelope[1].result

\* C6: two built envelopes that differ in at least one field (from, to,
\* operation, messageId, timestamp, one capability value, schemaUri, accept,
\* payloadHint or payloadRefs) have different serialized forms and therefore
\* different hashes.
C6_DifferentFieldsDifferentHash ==
    (IsSome(pair) /\ ~EnvelopeEq(Unwrap(pair).first, Unwrap(pair).second))
        => /\ IsSome(Unwrap(pair).serialized)
                => LET texts == Unwrap(Unwrap(pair).serialized)
                   IN  texts[1].ok /\ texts[2].ok /\ texts[1].value # texts[2].value
           /\ IsSome(Unwrap(pair).hashed)
                => LET digests == Unwrap(Unwrap(pair).hashed)
                   IN  digests[1].ok /\ digests[2].ok /\ digests[1].value # digests[2].value

\* Two envelopes that differ in one capability value only were serialized
\* and hashed.
C6_Witness ==
    /\ IsSome(pair)
    /\ IsSome(Unwrap(pair).serialized) /\ IsSome(Unwrap(pair).hashed)
    /\ LET first == Unwrap(pair).first
           second == Unwrap(pair).second
       IN  /\ IsSome(first.capabilities) /\ IsSome(second.capabilities)
           /\ Keys(Unwrap(first.capabilities)) = Keys(Unwrap(second.capabilities))
           /\ ~HashMap_eq(Unwrap(first.capabilities), Unwrap(second.capabilities))
           /\ [first EXCEPT !.capabilities = None] = [second EXCEPT !.capabilities = None]

\* The names from_envelope_data knows.
KnownOperations == {OperationType_to_string(op) : op \in OperationTypes}
KnownPayloadTypes == {PayloadType_to_string(t) : t \in PayloadTypes}
KnownEncodings == {EncodingType_to_string(e) : e \in EncodingTypes}
LacksRequired(json) ==
    IsObj(json) /\ \E n \in RequiredNames : \A i \in DOMAIN json.obj : json.obj[i][1] # n
HasUnknownName(json) ==
    LET d == ParseEnvelopeData(json).value
    IN  \/ d.op \notin KnownOperations
        \/ /\ IsSome(d.payload_hint)
           /\ \/ Unwrap(d.payload_hint).payload_type \notin KnownPayloadTypes
              \/ /\ IsSome(Unwrap(d.payload_hint).encoding)
                 /\ Unwrap(Unwrap(d.payload_hint).encoding) \notin KnownEncodings

\* C7: deserialize never silently defaults. A wire object (one that has the
\* shape of the wire format) whose op, payload_hint.type or
\* payload_hint.encoding is not one of the known lowercase names yields a
\* Validation error; a wire object lacking any of v, msg_id, ts, from, to, op
\* yields a Serialization error; in both cases no Envelope is returned.
C7_DeserializeRejects ==
    IsSome(deserialized) =>
        LET json == Unwrap(deserialized).text
            r == Unwrap(deserialized).result
        IN  /\ LacksRequired(json) => (~r.ok /\ r.kind = "Serialization")
            /\ (ParseEnvelopeData(json).ok /\ HasUnknownName(json))
                  => (~r.ok /\ r.kind = "Validation")

\* A text whose op is "Data" (not the lowercase name) was rejected.
C7_Witness ==
    /\ IsSome(deserialized)
    /\ Unwrap(deserialized).text = JObj(Received(<<"a">>, <<"D","a","t","a">>, <<>>))
    /\ ~Unwrap(deserialized).result.ok

\* C8: once build() has returned an Envelope, no public operation on the
\* returned value changes any of its fields.
C8_ReadOnlyAfterBuild ==
    (BuiltOk /\ origin = "build") => envelope = Some(Unwrap(built).outcome.value)

\* The values build() gets to see according to the calls made on the builder.
FinalFrom == IF IsSome(given.from) THEN Unwrap(given.from) ELSE <<>>
FinalTo == IF IsSome(given.to) THEN Unwrap(given.to) ELSE <<>>

C10_AsStated ==
    IsSome(built) =>
        /\ (/\ given.message_id = None /\ calls = 0
            /\ FinalFrom # <<>> /\ FinalTo # <<>>)
              => BuiltOk /\ Uuid_parse_str_is_ok(Unwrap(built).outcome.value.message_id)
        /\ (IsSome(given.message_id) /\ BuiltOk)
              => Unwrap(built).outcome.value.message_id = Unwrap(given.message_id)

\* C10 (amended): if message_id is never set on the builder, the envelope
\* carries a freshly generated valid UUID, so a builder with only from and
\* to, each holding a non-whitespace character, builds successfully; if
\* message_id is set explicitly, the built envelope's messageId is exactly
\* the given string.
GeneratedUuids == {generate_uuid(random) : random \in RandomSource}
C10_MessageIdDefault ==
    /\ (IsSome(builder) /\ given.message_id = None)
          => /\ Unwrap(builder).message_id \in GeneratedUuids
             /\ Uuid_parse_str_is_ok(Unwrap(builder).message_id)
    /\ IsSome(built) =>
          /\ (/\ given.message_id = None /\ calls = 0
              /\ ~Blank(FinalFrom) /\ ~Blank(FinalTo))
                => /\ BuiltOk
                   /\ Unwrap(built).outcome.value.message_id \in GeneratedUuids
                   /\ Uuid_parse_str_is_ok(Unwrap(built).outcome.value.message_id)
          /\ (IsSome(given.message_id) /\ BuiltOk)
                => Unwrap(built).outcome.value.message_id = Unwrap(given.message_id)

\* A builder given only from and to built an envelope.
C10_Witness == BuiltOk /\ given.message_id = None /\ calls = 0

\* The entries a map holds after `key` is set to `value`.
Updated(entries, key, value) == {e \in entries : e[1] # key} \cup {<<key, value>>}

\* The entries the capability()/capabilities() calls of `log` ask for: those
\* of the last capabilities(map), or none, updated in call order by the
\* capability(key, value) calls after it.
RECURSIVE CapabilitiesAfter(_)
CapabilitiesAfter(log) ==
    IF log = <<>> THEN {}
    ELSE LET last == log[Len(log)]
             before == SubSeq(log, 1, Len(log) - 1)
         IN  IF last[1] = "capabilities"
             THEN Entries(last[2])
             ELSE Updated(CapabilitiesAfter(before), last[2][1], last[2][2])

\* The capabilities field holds exactly these entries, one per key; it is
\* absent only when no call was made.
HoldsCapabilities(e, log) ==
    IF log = <<>>
    THEN e.capabilities = None
    ELSE /\ IsSome(e.capabilities)
         /\ Entries(Unwrap(e.capabilities)) = CapabilitiesAfter(log)
         /\ Len(Unwrap(e.capabilities)) = Cardinality(Keys(Unwrap(e.capabilities)))

\* C11: capability(key, value) is additive and capabilities(map) replaces:
\* after any sequence of these builder calls the working envelope, and the
\* envelope build() returns, hold the entries of the last capabilities(map)
\* (none if there was no such call) updated in call order by the
\* capability(key, value) calls made after it, so a capability() call keeps
\* every earlier entry with a different key.
C11_CapabilityAddsCapabilitiesReplaces ==
    /\ IsSome(builder) => HoldsCapabilities(Unwrap(builder), given.capability_calls)
    /\ BuiltOk => HoldsCapabilities(Unwrap(built).outcome.value, given.capability_calls)

\* capabilities(map) with an entry, then capability() with another key, built.
C11_Witness ==
    /\ BuiltOk
    /\ Len(given.capability_calls) = 2
    /\ given.capability_calls[1][1] = "capabilities"
    /\ given.capability_calls[1][2] # <<>>
    /\ given.capability_calls[2][1] = "capability"
    /\ given.capability_calls[2][2][1] \notin Keys(given.capability_calls[1][2])
    /\ Cardinality(Entries(Unwrap(Unwrap(built).outcome.value.capabilities))) = 2

\* The identifier of an enum variant as declared (types.rs), and its
\* lowercase form.
VariantName(x) ==
    CASE x = "Control" -> <<"C","o","n","t","r","o","l">>
      [] x = "Data" -> <<"D","a","t","a">>
      [] x = "Ack" -> <<"A","c","k">>
      [] x = "Error" -> <<"E","r","r","o","r">>
      [] x = "Request" -> <<"R","e","q","u","e","s","t">>
      [] x = "Response" -> <<"R","e","s","p","o","n","s","e">>
      [] x = "Float32" -> <<"F","l","o","a","t","3","2">>
      [] x = "Float64" -> <<"F","l","o","a","t","6","4">>
      [] x = "Int32" -> <<"I","n","t","3","2">>
      [] x = "Int64" -> <<"I","n","t","6","4">>
      [] x = "Uint8" -> <<"U","i","n","t","8">>
      [] x = "Uint16" -> <<"U","i","n","t","1","6">>
      [] x = "Uint32" -> <<"U","i","n","t","3","2">>
      [] x = "Uint64" -> <<"U","i","n","t","6","4">>
LowerOf(c) ==
    CASE c = "A" -> "a" [] c = "C" -> "c" [] c = "D" -> "d" [] c = "E" -> "e"
      [] c = "F" -> "f" [] c = "I" -> "i" [] c = "R" -> "r" [] c = "U" -> "u"
      [] OTHER -> c
to_lowercase(s) == [i \in DOMAIN s |-> LowerOf(s[i])]

\* The names of an object's members, and the value written under a name.
Names(members) == {members[i][1] : i \in DOMAIN members}
Member(members, name) == (CHOOSE i \in DOMAIN members : members[i][1] = name)
ValueOf(members, name) == members[Member(members, name)][2]
NoNullNoRepeat(members) ==
    /\ \A i \in DOMAIN members : ~IsNull(members[i][2])
    /\ \A i, j \in DOMAIN members : members[i][1] = members[j][1] => i = j

\* C12: the serialized object always has the members v, msg_id, ts, from,
\* to and op; it has capabilities, schema_uri, accept, payload_hint and
\* payload_refs exactly when the envelope's field is present, and inside
\* payload_hint (next to type) size, encoding and count exactly when the
\* hint's field is present; no member is written as null; op and encoding
\* are written as the lowercase names of their variants.
C12_SerializedMembers ==
    IsSome(serialized) =>
        LET e == Unwrap(serialized).source
            r == Unwrap(serialized).result
            top == r.value.obj
            hint == ValueOf(top, K_payload_hint).obj
        IN  /\ r.ok /\ IsObj(r.value)
            /\ NoNullNoRepeat(top)
            /\ Names(top) =
                  {K_v, K_msg_id, K_ts, K_from, K_to, K_op}
                    \cup (IF IsSome(e.capabilities) THEN {K_capabilities} ELSE {})
                    \cup (IF IsSome(e.schema_uri) THEN {K_schema_uri} ELSE {})
                    \cup (IF IsSome(e.accept) THEN {K_accept} ELSE {})
                    \cup (IF IsSome(e.payload_hint) THEN {K_payload_hint} ELSE {})
                    \cup (IF IsSome(e.payload_refs) THEN {K_payload_refs} ELSE {})
            /\ ValueOf(top, K_op) = JStr(to_lowercase(VariantName(e.operation)))
            /\ IsSome(e.payload_hint) =>
                  LET h == Unwrap(e.payload_hint)
                  IN  /\ IsObj(ValueOf(top, K_payload_hint))
                      /\ NoNullNoRepeat(hint)
                      /\ Names(hint) =
                            {K_type}
                              \cup (IF IsSome(h.size) THEN {K_size} ELSE {})
                              \cup (IF IsSome(h.encoding) THEN {K_encoding} ELSE {})
                              \cup (IF IsSome(h.count) THEN {K_count} ELSE {})
                      /\ IsSome(h.encoding) =>
                            ValueOf(hint, K_encoding) =
                              JStr(to_lowercase(VariantName(Unwrap(h.encoding))))

\* An envelope with capabilities and a hint that has an encoding but no
\* size, and without schema_uri, accept and payload_refs, was serialized.
C12_Witness ==
    /\ IsSome(serialized)
    /\ LET e == Unwrap(serialized).source
       IN  /\ IsSome(e.capabilities) /\ IsSome(e.payload_hint)
           /\ e.schema_uri = None /\ e.accept = None /\ e.payload_refs = None
           /\ IsSome(Unwrap(e.payload_hint).encoding)
           /\ Unwrap(e.payload_hint).size = None
           /\ Unwrap(e.payload_hint).encoding # Some("Float32")

\* C13: serialize does not re-run validation: it returns Ok with the text of
\* the envelope it was called on for every Envelope value, one that fails
\* validate() included; a failure, if serde_json reported one, would be a
\* Serialization error.
C13_SerializeDoesNotValidate ==
    IsSome(serialized) =>
        LET e == Unwrap(serialized).source
            r == Unwrap(serialized).result
        IN  /\ r.ok \/ r.kind = "Serialization"
            /\ r.ok
            /\ r.value = serde_json_to_string(Envelope_to_envelope_data(e))

\* An envelope whose from and to are empty and which holds a capability with
\* an empty key, so that it fails validate(), was serialized.
C13_Witness ==
    /\ IsSome(serialized)
    /\ LET e == Unwrap(serialized).source
       IN  /\ ~Envelope_validate(e).ok /\ e.from = <<>> /\ e.to = <<>>
           /\ IsSome(e.capabilities) /\ <<>> \in Keys(Unwrap(e.capabilities))
    /\ Unwrap(serialized).result.ok

\* The kernel call made, when it is a call of `op`.
Called(op) == IsSome(kernel) /\ Unwrap(kernel).op = op

\* C14: cosine_similarity on two vectors of equal length (length 0
\* included) of which at least one has magnitude exactly zero -- all its
\* elements zero, or squares so small that their f32 sum is zero -- returns
\* Ok with similarity exactly 0.0: never an error, never NaN.
C14_ZeroMagnitudeGivesZero ==
    Called("cosine_similarity") =>
        LET c == Unwrap(kernel)
        IN  (/\ Len(c.a) = Len(c.b)
             /\ Magnitude(c.a) = f32(0) \/ Magnitude(c.b) = f32(0))
                => /\ c.returned.ok
                   /\ c.returned.value.similarity = Some(f32(0))
                   /\ c.returned.value.similarity # Some(NaN)
                   /\ c.returned.value.success

\* cosine_similarity of a vector of zeros and a vector holding 2^100 (whose
\* magnitude is infinite, the dot product being 0) was computed.
C14_Witness ==
    /\ Called("cosine_similarity")
    /\ LET c == Unwrap(kernel)
       IN  /\ Len(c.a) = Len(c.b) /\ Len(c.a) > 1
           /\ \A i \in DOMAIN c.a : c.a[i] = f32(0)
           /\ \A i \in DOMAIN c.b : c.b[i] = Big
           /\ c.returned.ok

\* The call returned Err(UmicpError::Matrix) with this message.
MatrixError(returned, message) ==
    ~returned.ok /\ returned.kind = "Matrix" /\ returned.message = message
DeterminantUnimplemented(returned) ==
    MatrixError(returned,
                "Determinant calculation for matrices larger than 2x2 not yet implemented")

\* C15 as stated: determinant with a size greater than 2 fails with the
\* unimplemented-operation error whatever buffer is passed.
C15_AsStated ==
    (Called("determinant") /\ usize_lt(usize(2), Unwrap(kernel).dims[1]))
        => DeterminantUnimplemented(Unwrap(kernel).returned)

\* C15: determinant with a size greater than 2 never returns a value. The
\* buffer length is checked first: a buffer of size * size elements gets the
\* unimplemented-operation error, any other buffer the dimension-mismatch
\* error. When size * size does not fit usize, a build with overflow checks
\* panics on the multiplication and a build without them compares the
\* buffer length with the wrapped product.
C15_DeterminantCeiling ==
    (Called("determinant") /\ usize_lt(usize(2), Unwrap(kernel).dims[1]))
        => LET c == Unwrap(kernel)
               size == c.dims[1]
               square == usize_mul(size, size)
           IN  /\ ~c.returned.ok
               /\ IF square.overflow /\ c.overflow_checks
                  THEN c.returned.kind = "panic"
                  ELSE IF usize(Len(c.a)) = square.value
                  THEN DeterminantUnimplemented(c.returned)
                  ELSE MatrixError(
                           c.returned,
                           "Invalid matrix dimensions for determinant: matrix({}) != {}x{}")

\* determinant of a 9-element buffer with size 3 was asked for.
C15_Witness ==
    /\ Called("determinant")
    /\ Unwrap(kernel).dims[1] = usize(3) /\ Len(Unwrap(kernel).a) = 9
    /\ Unwrap(kernel).a[1] # Unwrap(kernel).a[2]
    /\ DeterminantUnimplemented(Unwrap(kernel).returned)

\* The exact product of two finite values, and whether the 2x2 matrix m has
\* the determinant m0*m3 - m1*m2 = 0 over the reals.
ExactProduct(x, y) == IF x[1] = 0 \/ y[1] = 0 THEN <<0, 0>> ELSE <<x[1] * y[1], x[2] + y[2]>>
ExactlySingular(m) == ExactProduct(m[1], m[4]) = ExactProduct(m[2], m[3])

\* C16: with buffers of size * size elements, inverse fails with the
\* singular-matrix error for every 2x2 matrix whose determinant
\* m0*m3 - m1*m2 is 0, and with the unimplemented-operation error for every
\* size greater than 2; in both cases the output buffer is as it was.
C16_InverseRefusals ==
    (/\ Called("inverse")
     /\ ProductIs(Unwrap(kernel).dims[1], Unwrap(kernel).dims[1], Len(Unwrap(kernel).a))
     /\ ProductIs(Unwrap(kernel).dims[1], Unwrap(kernel).dims[1], Len(Unwrap(kernel).before)))
        => LET c == Unwrap(kernel)
               size == c.dims[1]
           IN  /\ (size = usize(2) /\ ExactlySingular(c.a))
                     => /\ MatrixError(c.returned, "Matrix is singular, cannot compute inverse")
                        /\ c.after = c.before
               /\ usize_lt(usize(2), size)
                     => /\ MatrixError(c.returned,
                                       "Matrix inverse for matrices larger than 2x2 not yet implemented")
                        /\ c.after = c.before

\* C17: vector_add, vector_subtract and vector_multiply with
\* len(a) = len(b) = len(out), and vector_scale with len(v) = len(out),
\* return Ok and leave out[i] = a[i] + b[i], a[i] - b[i], a[i] * b[i] and
\* v[i] * scalar at every index i. The inputs are shared borrows
\* (&[f32]): the call record holds them as they were passed.
C17_ElementwiseResults ==
    IsSome(kernel) =>
        LET c == Unwrap(kernel)
            Elementwise(Op(_, _)) ==
                /\ c.returned.ok /\ c.returned.value.success
                /\ Len(c.after) = Len(c.a)
                /\ \A i \in DOMAIN c.after : c.after[i] = Op(c.a[i], c.b[i])
            Scaled(x, y) == f32_mul(x, Unwrap(c.scalar))
        IN  /\ (c.op = "vector_add" /\ Len(c.a) = Len(c.b) /\ Len(c.a) = Len(c.before))
                  => Elementwise(f32_add)
            /\ (c.op = "vector_subtract" /\ Len(c.a) = Len(c.b) /\ Len(c.a) = Len(c.before))
                  => Elementwise(f32_sub)
            /\ (c.op = "vector_multiply" /\ Len(c.a) = Len(c.b) /\ Len(c.a) = Len(c.before))
                  => Elementwise(f32_mul)
            /\ (c.op = "vector_scale" /\ Len(c.a) = Len(c.before))
                  => /\ c.returned.ok /\ c.returned.value.success
                     /\ Len(c.after) = Len(c.a)
                     /\ \A i \in DOMAIN c.after : c.after[i] = Scaled(c.a[i], c.a[i])

\* vector_subtract of two vectors that differ at some index was computed.
C17_Witness ==
    /\ Called("vector_subtract")
    /\ LET c == Unwrap(kernel)
       IN  /\ Len(c.a) = Len(c.b) /\ Len(c.a) = Len(c.before) /\ Len(c.a) > 1
           /\ \E i \in DOMAIN c.a : c.a[i] # c.b[i]
           /\ c.returned.ok

\* C18: dot_product of vectors of equal length returns, as `result`, the
\* sum of the products a[i] * b[i] computed in f32 in index order, whether
\* the vectors are shorter than 8 elements or not: the path for 8 and more
\* elements gives what the path for short vectors gives on the same input;
\* vectors of unequal length give a Matrix error.
C18_DotProduct ==
    Called("dot_product") =>
        LET c == Unwrap(kernel)
        IN  IF Len(c.a) = Len(c.b)
            THEN /\ c.returned.ok /\ c.returned.value.success
                 /\ c.returned.value.result = Some(f32_as_f64(SumOfProducts(c.a, c.b, f32(0))))
                 /\ dot_product_simd(c.a, c.b) = SumOfProducts(c.a, c.b, f32(0))
            ELSE ~c.returned.ok /\ c.returned.kind = "Matrix"

\* dot_product of two vectors of 8 or more elements, whose f32 sum depends
\* on the order of the additions (4097 * 4097 + 1 + ... + 1), was computed.
C18_Witness ==
    /\ Called("dot_product")
    /\ LET c == Unwrap(kernel)
       IN  /\ Len(c.a) = Len(c.b) /\ Len(c.a) >= 8
           /\ c.a[1] = f32(4097) /\ c.b[1] = f32(4097)
           /\ c.a[2] = f32(1) /\ c.b[2] = f32(1)
           /\ c.returned.ok
           /\ c.returned.value.result = Some(f32(16785408))

\* The sum over k of a[i*n+k] * b[k*p+j], added up in f32 from 0.0 in the
\* order of k.
RECURSIVE ElementSum(_, _, _, _, _, _, _, _)
ElementSum(a, b, i, j, n, p, k, acc) ==
    IF k >= n THEN acc
    ELSE ElementSum(a, b, i, j, n, p, k + 1,
                    f32_add(acc, f32_mul(a[i * n + k + 1], b[k * p + j + 1])))

\* The buffers of the multiply call have the lengths m*n, n*p and m*p.
MultiplyFits(c) ==
    /\ ProductIs(c.dims[1], c.dims[2], Len(c.a))
    /\ ProductIs(c.dims[2], c.dims[3], Len(c.b))
    /\ ProductIs(c.dims[1], c.dims[3], Len(c.before))

\* C19: multiply with len(a) = m*n, len(b) = n*p and len(out) = m*p returns
\* Ok and leaves in every out[i*p+j] the sum over k of a[i*n+k] * b[k*p+j];
\* the same call on an output buffer with other contents returns and leaves
\* the same; and the loop of the small-input path and the loop of the
\* large-input path (taken when m*n*p > 10000) leave the same buffer.
C19_MultiplyIsTheProduct ==
    (Called("multiply") /\ MultiplyFits(Unwrap(kernel))) =>
        LET c == Unwrap(kernel)
            m == c.dims[1]
            n == c.dims[2]
            p == c.dims[3]
            zeros == [x \in DOMAIN c.before |-> f32(0)]
        IN  /\ c.returned.ok
            /\ \A x \in DOMAIN c.after :
                   c.after[x] = ElementSum(c.a, c.b, (x - 1) \div p[2], (x - 1) % p[2],
                                           n[2], p[2], 0, f32(0))
            /\ \A other \in {Stale(Len(c.before)), Patterned(Len(c.before), 1)} \ {c.before} :
                   Matrix_multiply(c.a, c.b, other, m, n, p, c.overflow_checks)
                       = Returns(c.returned, c.after)
            /\ multiply_parallel(c.a, c.b, zeros, m, n, p, c.overflow_checks, 0)
                   = multiply_sequential(c.a, c.b, zeros, m, n, p, c.overflow_checks, 0)

\* A multiplication on the large-input path into a buffer that held
\* something else and is left with a non-zero product.
C19_Witness ==
    /\ Called("multiply")
    /\ MultiplyFits(Unwrap(kernel))
    /\ usize_lt(usize(10000), usize(Len(Unwrap(kernel).a) * Unwrap(kernel).dims[3][2]))
    /\ Unwrap(kernel).returned.ok
    /\ Unwrap(kernel).before # Unwrap(kernel).after
    /\ \E x \in DOMAIN Unwrap(kernel).after : Unwrap(kernel).after[x] # f32(0)

\* The buffers of the transpose call have the lengths rows*cols and cols*rows.
TransposeFits(c) ==
    /\ ProductIs(c.dims[1], c.dims[2], Len(c.a))
    /\ ProductIs(c.dims[2], c.dims[1], Len(c.before))

\* The pairs (i, j) with i < rows and j < cols whose output index j*rows+i
\* is x (counted from 0).
WrittenBy(x, rows, cols) ==
    {ij \in (0..(rows - 1)) \X (0..(cols - 1)) : ij[2] * rows + ij[1] = x}

\* C20: transpose with len(in) = rows*cols and len(out) = cols*rows returns
\* Ok, every element of out is the target out[j*rows+i] of exactly one pair
\* i < rows, j < cols and holds in[i*cols+j]; and transposing what it wrote
\* with (cols, rows) returns Ok and gives back the original buffer.
C20_TransposeAndBack ==
    (Called("transpose") /\ TransposeFits(Unwrap(kernel))) =>
        LET c == Unwrap(kernel)
            rows == c.dims[1][2]
            cols == c.dims[2][2]
        IN  /\ c.returned.ok
            /\ \A x \in DOMAIN c.after :
                   /\ Cardinality(WrittenBy(x - 1, rows, cols)) = 1
                   /\ \A ij \in WrittenBy(x - 1, rows, cols) :
                          c.after[x] = c.a[ij[1] * cols + ij[2] + 1]
            /\ IsSome(c.back) =>
                   /\ Unwrap(c.back).returned.ok
                   /\ Unwrap(c.back).after = c.a

\* A 2 x 3 matrix of six different values, transposed and transposed back.
C20_Witness ==
    /\ Called("transpose")
    /\ Unwrap(kernel).dims = <<usize(2), usize(3)>>
    /\ Unwrap(kernel).a = Counted(6)
    /\ Unwrap(kernel).returned.ok
    /\ Unwrap(kernel).after # Unwrap(kernel).a
    /\ IsSome(Unwrap(kernel).back)
    /\ Unwrap(Unwrap(kernel).back).after = Counted(6)

\* A small whole number held in an f32, and that number.
IsSmallInt(x) == IsFinite(x) /\ x[2] >= 0 /\ x[2] <= 10 /\ Abs(x[1]) < 1024
IntOf(x) == x[1] * Pow2(x[2])

\* C21: determinant on a buffer of size * size elements returns Ok with only
\* the scalar field set: to m[0] for size 1, and for size 2 to
\* m[0]*m[3] - m[1]*m[2] computed in f32 and widened to f64 -- which for
\* small whole numbers is exactly their determinant.
C21_DeterminantValue ==
    (/\ Called("determinant")
     /\ Unwrap(kernel).dims[1] \in {usize(1), usize(2)}
     /\ ProductIs(Unwrap(kernel).dims[1], Unwrap(kernel).dims[1], Len(Unwrap(kernel).a)))
        => LET c == Unwrap(kernel)
               m == c.a
           IN  /\ c.returned.ok
               /\ c.returned.value.similarity = None
               /\ c.returned.value.data = None
               /\ c.dims[1] = usize(1) => c.returned.value.result = Some(m[1])
               /\ c.dims[1] = usize(2) =>
                      /\ c.returned.value.result
                             = Some(f32_sub(f32_mul(m[1], m[4]), f32_mul(m[2], m[3])))
                      /\ (\A x \in DOMAIN m : IsSmallInt(m[x])) =>
                             c.returned.value.result
                                 = Some(f32(IntOf(m[1]) * IntOf(m[4]) - IntOf(m[2]) * IntOf(m[3])))

\* determinant([1,2,3,4], size = 2) == -2
C21_Witness ==
    /\ Called("determinant")
    /\ Unwrap(kernel).dims[1] = usize(2)
    /\ Unwrap(kernel).a = <<f32(1), f32(2), f32(3), f32(4)>>
    /\ Unwrap(kernel).returned.ok
    /\ Unwrap(kernel).returned.value.result = Some(f32(-2))

\* The 2x2 identity matrix.
Identity2 == <<f32(1), f32(0), f32(0), f32(1)>>

\* An inverse of a 2x2 matrix whose determinant m0*m3 - m1*m2 is not 0 over
\* the reals, on buffers of four elements.
InvertibleCall ==
    /\ Called("inverse")
    /\ Unwrap(kernel).dims[1] = usize(2)
    /\ Len(Unwrap(kernel).a) = 4 /\ Len(Unwrap(kernel).before) = 4
    /\ ~ExactlySingular(Unwrap(kernel).a)

\* x is y up to the tolerance 2^-20 of the examples' comparisons.
Tolerance == <<1, -20>>
Near(x, y) ==
    LET d == f32_sub(x, y)
    IN  IsFinite(d) /\ ~f32_gt(d, Tolerance) /\ ~f32_gt(f32_neg(d), Tolerance)

\* C22: for every 2x2 matrix m with nonzero determinant, inverse returns Ok
\* and writes [m3, -m1, -m2, m0] / det, and multiply(m, out) then yields the
\* identity matrix (each element up to the floating tolerance).
C22_InverseTimesOriginal ==
    InvertibleCall =>
        LET c == Unwrap(kernel)
            m == c.a
            det == f32_sub(f32_mul(m[1], m[4]), f32_mul(m[2], m[3]))
        IN  /\ c.returned.ok
            /\ c.after = <<f32_div(m[4], det), f32_div(f32_neg(m[2]), det),
                           f32_div(f32_neg(m[3]), det), f32_div(m[1], det)>>
            /\ IsSome(c.back) =>
                   /\ Unwrap(c.back).returned.ok
                   /\ \A x \in 1..4 : Near(Unwrap(c.back).after[x], Identity2[x])

\* The fields among result / similarity / data that a MatrixResult has set.
Populated(r) ==
    {f \in {"result", "similarity", "data"} :
        CASE f = "result" -> IsSome(r.result)
          [] f = "similarity" -> IsSome(r.similarity)
          [] f = "data" -> IsSome(r.data)}

KernelReturned == IsSome(kernel) /\ Unwrap(kernel).returned.ok

\* C23 as stated: every MatrixResult a kernel operation returns has exactly
\* one of result / similarity / data set.
C23_AsStated ==
    KernelReturned => Cardinality(Populated(Unwrap(kernel).returned.value)) = 1

\* C23: a MatrixResult a kernel operation returns has success = true, no
\* error text, and at most one of result / similarity / data set: result for
\* dot_product and determinant, similarity for cosine_similarity, data (a copy
\* of the buffer written) for normalize and inverse, and none of them for
\* add, multiply, transpose and vector_add / subtract / multiply / scale,
\* whose only output is the buffer they write.
C23_PopulatedPerOperation ==
    KernelReturned =>
        LET c == Unwrap(kernel)
            r == c.returned.value
        IN  /\ r.success /\ r.error = None
            /\ Populated(r) =
                   CASE c.op \in {"dot_product", "determinant"} -> {"result"}
                     [] c.op = "cosine_similarity" -> {"similarity"}
                     [] c.op \in {"normalize", "inverse"} -> {"data"}
                     [] OTHER -> {}
            /\ c.op \in {"normalize", "inverse"} => r.data = Some(c.after)

\* An add that returned Ok, wrote its sum and set none of the three fields.
C23_Witness ==
    /\ KernelReturned
    /\ Unwrap(kernel).op = "add"
    /\ Unwrap(kernel).after # Unwrap(kernel).before
    /\ Populated(Unwrap(kernel).returned.value) = {}

\* The calls of an envelope job made one after the other with nothing else
\* running.
RECURSIVE RunCalls(_, _, _)
RunCalls(todo, e, returned) ==
    IF todo = <<>> THEN [envelope |-> e, returned |-> returned]
    ELSE LET done == AfterCall(Head(todo), e, returned)
         IN  RunCalls(Tail(todo), done.envelope, done.returned)

\* What a job returns and leaves when it runs alone: the whole call at once.
Alone(job) ==
    CASE job.kind = "vector_add" ->
             LET done == Matrix_vector_add(job.a, job.b, job.before)
             IN  [returned |-> <<done.returned>>, buffer |-> done.buffer, envelope |-> None]
      [] job.kind = "transpose" ->
             LET done == Matrix_transpose(job.a, job.before, usize(job.rows), usize(job.cols), TRUE)
             IN  [returned |-> <<done.returned>>, buffer |-> done.buffer, envelope |-> None]
      [] job.kind = "envelope" ->
             LET done == RunCalls(job.calls, None, <<>>)
             IN  [returned |-> done.returned, buffer |-> job.before, envelope |-> done.envelope]

\* C24: whatever the other threads are doing, a call that has returned has
\* returned what it returns alone and left its own buffer or envelope as it
\* does alone, and a call still in its loop has changed nothing but elements
\* of its own buffer, each to the value it gets alone.
C24_ThreadsRunAsAlone ==
    IsSome(threads) =>
        \A t \in Threads :
            LET th == Unwrap(threads)[t]
                alone == Alone(th.job)
            IN  /\ th.pc = "returned" =>
                       /\ th.returned = alone.returned
                       /\ th.buffer = alone.buffer
                       /\ th.envelope = alone.envelope
                /\ th.job.kind # "envelope" =>
                       /\ DOMAIN th.buffer = DOMAIN th.job.before
                       /\ \A x \in DOMAIN th.buffer :
                              th.buffer[x] \in {th.job.before[x], alone.buffer[x]}

\* Two kernel calls both halfway through their loops.
C24_Witness ==
    /\ IsSome(threads)
    /\ \A t \in Threads :
           /\ Unwrap(threads)[t].pc = "loop"
           /\ Unwrap(threads)[t].at = 1
           /\ Unwrap(threads)[t].buffer # Unwrap(threads)[t].job.before
    /\ Unwrap(threads)[1].job # Unwrap(threads)[2].job

\* The first entry of a map, in its iteration order, with a blank key or
\* value, and what build() reports about it: its key before its value.
FirstBlankEntry(caps) ==
    CHOOSE i \in DOMAIN caps :
        /\ Blank(caps[i][1]) \/ Blank(caps[i][2])
        /\ \A j \in 1..(i - 1) : ~Blank(caps[j][1]) /\ ~Blank(caps[j][2])
BlankEntryName(caps) ==
    IF Blank(caps[FirstBlankEntry(caps)][1]) THEN "capability key" ELSE "capability value"

EmptyField(name) == UmicpError_validation("Field '{}' cannot be empty", name)

\* The error of the earliest check of build() that e fails, in the order
\* from, to, messageId non-empty, messageId UUID format, capabilities,
\* schemaUri, accept; OkUnit when it fails none.
EarliestFailure(e) ==
    CASE Blank(e.from) -> EmptyField("from")
      [] ~Blank(e.from) /\ Blank(e.to) -> EmptyField("to")
      [] ~Blank(e.from) /\ ~Blank(e.to) /\ Blank(e.message_id) -> EmptyField("message_id")
      [] ~Blank(e.from) /\ ~Blank(e.to) /\ ~Blank(e.message_id)
             /\ ~Uuid_parse_str_is_ok(e.message_id) ->
             UmicpError_validation("Invalid UUID format: {}", e.message_id)
      [] OTHER ->
             IF /\ IsSome(e.capabilities)
                /\ \E i \in DOMAIN Unwrap(e.capabilities) :
                       Blank(Unwrap(e.capabilities)[i][1]) \/ Blank(Unwrap(e.capabilities)[i][2])
             THEN EmptyField(BlankEntryName(Unwrap(e.capabilities)))
             ELSE IF IsSome(e.schema_uri) /\ Blank(Unwrap(e.schema_uri))
             THEN EmptyField("schema_uri")
             ELSE IF IsSome(e.accept) /\ \E i \in DOMAIN Unwrap(e.accept) : Blank(Unwrap(e.accept)[i])
             THEN EmptyField("accept type")
             ELSE OkUnit

RowOf(buffer, r, cols) == SubSeq(buffer, r * cols + 1, (r + 1) * cols)

\* C26: normalize on a buffer of rows*cols elements returns Ok; every row
\* is left as normalize leaves that row when it is the whole one-row matrix,
\* whatever the other rows hold; a row of zeros is left as it was; and the
\* data field holds the whole buffer as it is after the call.
C26_NormalizeRowByRow ==
    (/\ Called("normalize")
     /\ ProductIs(Unwrap(kernel).dims[1], Unwrap(kernel).dims[2], Len(Unwrap(kernel).before)))
        => LET c == Unwrap(kernel)
               cols == c.dims[2][2]
           IN  /\ c.returned.ok
               /\ c.returned.value.data = Some(c.after)
               /\ Len(c.after) = Len(c.before)
               /\ Len(c.before) > 0 =>
                      \A r \in 0..((Len(c.before) \div cols) - 1) :
                          /\ RowOf(c.after, r, cols)
                                 = Matrix_normalize(RowOf(c.before, r, cols), usize(1),
                                                    usize(cols), c.overflow_checks).buffer
                          /\ (\A x \in 1..cols : RowOf(c.before, r, cols)[x] = f32(0))
                                 => RowOf(c.after, r, cols) = RowOf(c.before, r, cols)

\* The matrix [3, 0; 0, 0]: its first row became [1, 0], its row of zeros
\* stayed.
C26_Witness ==
    /\ Called("normalize")
    /\ Unwrap(kernel).dims = <<usize(2), usize(2)>>
    /\ Len(Unwrap(kernel).before) = 4
    /\ Unwrap(kernel).returned.ok
    /\ RowOf(Unwrap(kernel).before, 1, 2) = <<f32(0), f32(0)>>
    /\ RowOf(Unwrap(kernel).after, 1, 2) = <<f32(0), f32(0)>>
    /\ RowOf(Unwrap(kernel).before, 0, 2) = <<f32(3), f32(0)>>
    /\ RowOf(Unwrap(kernel).after, 0, 2) = <<f32(1), f32(0)>>

\* The fields of an Envelope, and those in which two envelopes differ.
EnvelopeFields ==
    {"version", "message_id", "timestamp", "from", "to", "operation", "capabilities",
     "schema_uri", "accept", "payload_hint", "payload_refs"}
ChangedFields(e1, e2) == {f \in EnvelopeFields : e1[f] # e2[f]}
BuilderChanged == ChangedFields(Unwrap(builder), Unwrap(builder'))

\* C27: no step of a builder changes the version or the timestamp its
\* working envelope got when it was created; each setter changes at most
\* the field it names (capability and capabilities: the capabilities map);
\* and build() checks, and on success returns, the working envelope as it is.
C27_SettersChangeOnlyTheirField ==
    [][/\ (IsSome(builder) /\ IsSome(builder')) =>
              /\ Unwrap(builder').version = Unwrap(builder).version
              /\ Unwrap(builder').timestamp = Unwrap(builder).timestamp
       /\ EnvelopeBuilder_from => BuilderChanged \subseteq {"from"}
       /\ EnvelopeBuilder_to => BuilderChanged \subseteq {"to"}
       /\ EnvelopeBuilder_operation => BuilderChanged \subseteq {"operation"}
       /\ EnvelopeBuilder_message_id => BuilderChanged \subseteq {"message_id"}
       /\ EnvelopeBuilder_capability => BuilderChanged \subseteq {"capabilities"}
       /\ EnvelopeBuilder_capabilities => BuilderChanged \subseteq {"capabilities"}
       /\ EnvelopeBuilder_schema_uri => BuilderChanged \subseteq {"schema_uri"}
       /\ EnvelopeBuilder_accept => BuilderChanged \subseteq {"accept"}
       /\ EnvelopeBuilder_payload_hint => BuilderChanged \subseteq {"payload_hint"}
       /\ EnvelopeBuilder_payload_refs => BuilderChanged \subseteq {"payload_refs"}
       /\ EnvelopeBuilder_build =>
              /\ Unwrap(built').checked = Unwrap(builder)
              /\ Unwrap(built').outcome.ok => envelope' = builder
      ]_vars

\* An envelope built after as many setter calls as the budget allows, from
\* and to among them, carrying version "1.0" and the timestamp of creation.
C27_Witness ==
    /\ BuiltOk /\ origin = "build"
    /\ calls = MaxSetterCalls
    /\ IsSome(given.from) /\ IsSome(given.to)
    /\ Unwrap(envelope).version = <<"1", ".", "0">>
    /\ Unwrap(envelope).timestamp = TimeA

\* Some string build() checks for emptiness consists of whitespace only
\* (or of nothing).
SomeBlank(e) ==
    \/ Blank(e.from) \/ Blank(e.to) \/ Blank(e.message_id)
    \/ /\ IsSome(e.capabilities)
       /\ \E i \in DOMAIN Unwrap(e.capabilities) :
              Blank(Unwrap(e.capabilities)[i][1]) \/ Blank(Unwrap(e.capabilities)[i][2])
    \/ IsSome(e.schema_uri) /\ Blank(Unwrap(e.schema_uri))
    \/ IsSome(e.accept) /\ \E i \in DOMAIN Unwrap(e.accept) : Blank(Unwrap(e.accept)[i])

\* C28: build() fails with a Validation error when from, to, messageId, a
\* capability key or value, schemaUri or an accept entry is empty or only
\* whitespace; when none is and messageId is a UUID it succeeds, and the
\* envelope it returns holds every string exactly as given, surrounding
\* whitespace included.
C28_BlankIsEmpty ==
    IsSome(built) =>
        LET e == Unwrap(built).checked
        IN  /\ SomeBlank(e) => BuildFailedWith("Validation")
            /\ (~SomeBlank(e) /\ Uuid_parse_str_is_ok(e.message_id)) => BuiltOk
            /\ BuiltOk => envelope = Some(e)

\* A chain with " a " as from and as to built an envelope that holds " a ".
C28_Witness ==
    /\ BuiltOk
    /\ Unwrap(envelope).from = <<" ", "a", " ">>
    /\ Unwrap(envelope).to = <<" ", "a", " ">>
    /\ IsSome(Unwrap(envelope).capabilities)
    /\ Unwrap(envelope).schema_uri = Some(<<" ", "a", " ">>)

InverseUnimplemented(returned) ==
    MatrixError(returned, "Matrix inverse for matrices larger than 2x2 not yet implemented")
\* The determinant of a 2x2 matrix in f32 arithmetic, as the kernel has it.
Determinant2(m) == f32_sub(f32_mul(m[1], m[4]), f32_mul(m[2], m[3]))

Passed == 1..Len(Unwrap(stream).processor.handed)
Occurrences(seq, id) == Cardinality({i \in DOMAIN seq : seq[i] = id})
InBatches(id) ==
    Cardinality({t \in Threads : Occurrences(Unwrap(stream).workers[t].batch, id) > 0})
FlushRunning ==
    \E t \in Threads : Unwrap(stream).workers[t].pc \in {"flush", "process", "count"}

\* C30 as stated: once a flush_batch called after the last add_envelope
\* returned has itself returned, every envelope has been handed to
\* process_envelope exactly once and the buffer is empty.
C30_AsStated ==
    (IsSome(stream) /\ Unwrap(stream).processor.settled)
        => /\ \A id \in Passed : Unwrap(stream).processor.handed[id] = 1
           /\ Unwrap(stream).processor.buffer = <<>>

\* C30: at every moment each envelope passed to add_envelope is in exactly
\* one place: once in the buffer, in the batch of one running flush_batch,
\* or handed to process_envelope once. Once a flush_batch called after the
\* last add_envelope returned has itself returned, the buffer is empty, and
\* every envelope has been handed to process_envelope exactly once as soon
\* as no other flush_batch call is still running.
C30_ExactlyOnceWhenAllFlushesReturned ==
    IsSome(stream) =>
        LET p == Unwrap(stream).processor
        IN  /\ \A id \in Passed :
                   /\ p.handed[id] \in {0, 1}
                   /\ Occurrences(p.buffer, id) + InBatches(id) + p.handed[id] = 1
                   /\ \A t \in Threads : Occurrences(Unwrap(stream).workers[t].batch, id) <= 1
            /\ p.settled => p.buffer = <<>>
            /\ (p.settled /\ ~FlushRunning) => \A id \in Passed : p.handed[id] = 1

\* Two threads have each handed over a batch of their own, the full batch
\* of add_envelope among them, and the flush_batch after the last
\* add_envelope has returned with nothing left running.
C30_Witness ==
    /\ IsSome(stream)
    /\ Unwrap(stream).processor.settled /\ ~FlushRunning
    /\ Unwrap(stream).processor.processed_count >= 2
    /\ Len(Unwrap(stream).processor.handed) > batch_size
    /\ \A id \in Passed : Unwrap(stream).processor.handed[id] = 1

====
